---------------------------- MODULE Spec2Model ----------------------------
(***************************************************************************)
(* Specky: the /implement pipeline of the chat participant, the quality    *)
(* gate, the workspace path sanitizer and the tasks.md parser/toggler;     *)
(* the merge and extraction of code changes, the smart context of a task,  *)
(* concurrent toggleTask calls and concurrent createFeature calls.         *)
(*                                                                         *)
(* Text is modelled as sequences of one-character strings, so that the     *)
(* regular expressions and string operations of the source are computed    *)
(* character by character.                                                 *)
(***************************************************************************)
EXTENDS Integers, Sequences, FiniteSets, TLC

VARIABLES
    \* --- safeResolveWorkspaceFile under test (SpecPath) ---
    pathPc,         \* "input" | "resolved"
    relativePath,   \* the untrusted path string handed to the sanitizer
    safeUri,        \* Null, or the resolved location (sequence of segments)
    \* --- toggleTask under test (SpecToggle) ---
    tglPc,          \* "input" | "toggled"
    tglTaskId,      \* n of the id task-n handed to toggleTask
    tglBefore,      \* content of tasks.md before the call
    tglContent,     \* content of tasks.md
    tglWrites,      \* number of writeArtifact calls made
    \* --- tasks.md read: parse, progress, selection (SpecTasks) ---
    prsPc,          \* "input" | "parsed" | "counted" | "summed" | "selected"
    prsContent,     \* the text of tasks.md
    prsNumber,      \* the taskNumber handed to getSelectedTask (0: null)
    prsTasks,       \* the tree of parseTasksFromContent (indentation stack)
    prsFlatTasks,   \* the tree of parseTasksFromContent (services/fileManager.ts)
    prsProgress,    \* the FeatureProgress of calculateProgress
    prsOverall,     \* the result of getOverallProgress
    prsSelected,    \* the result of getSelectedTask
    \* --- one /plan or /tasks run (SpecWorkflow) ---
    wfPc,           \* "idle" | "streaming" | "done"
    wfCommand,      \* the command of the run: "plan" | "tasks"
    wfResult,       \* metadata.command of the ChatResult
    wfLog,          \* what the run has done and the artifacts it started from
    \* --- the file store: .specky/<active feature>/ ---
    featureListed,  \* listFeatures() lists the active feature's directory
    specMd,         \* spec.md
    planMd,         \* plan.md
    tasksMd,        \* tasks.md
    \* --- validateForImplementation ---
    gateResult,     \* the QualityGateResult of the latest validation
    \* --- the workspace ---
    disk,           \* location -> [exists, content]: the files as persisted
    docs,           \* location -> [open, content]: unsaved text of the editor
    \* --- one /implement run (Spec) ---
    pc,             \* the step of handleImplement the run is at
    flags,          \* the ImplementFlags parsed from the prompt
    selectedTask,   \* Null, or <<task>> returned by getSelectedTask
    cancelled,      \* the cancellation token of the request has fired
    fullResponse,   \* the text collected from the stream
    changeSet,      \* the ParsedFileChange list of parseCodeChanges
    appliedFiles,   \* the list returned by applyCodeChanges
    reports,        \* the messages written to the chat stream
    result,         \* metadata.command of the ChatResult: "implement" | "error"
    preStore,       \* the workspace and tasks.md when the run started
    runLog,         \* what the run has done so far
    \* --- the content choice of applyCodeChanges for one existing file (SpecMerge) ---
    mrgPc,          \* "input" | "merged" | "chosen"
    mrgPath,        \* change.path
    mrgNew,         \* change.content
    mrgExisting,    \* doc.getText() of the existing file
    mrgMerged,      \* the result of mergeCodeChanges(existing, new)
    mrgNext,        \* nextContent, the text handed to edit.replace
    \* --- parseCodeChanges under test (SpecExtract) ---
    xtrPc,          \* "input" | "parsed"
    xtrResponse,    \* the response text
    xtrChanges,     \* the ParsedFileChange list returned
    \* --- getSmartContextFromTask under test (SpecContext) ---
    ctxPc,          \* "input" | "loop" | "return" | "done"
    ctxTitle,       \* the task title
    ctxFolders,     \* the workspace has a folder
    ctxFiles,       \* location -> [kind, readable, size]
    ctxPaths,       \* the paths extracted from the title
    ctxIndex,       \* the number of the path the loop is at
    ctxChunks,      \* the entries pushed so far: [path, header, included, footer]
    ctxUsed,        \* the running total of the lengths of the entries
    ctxResult,      \* the string returned
    \* --- two toggleTask calls on one tasks.md (SpecRace) ---
    racePc,         \* caller -> "start" | "write" | "done"
    raceTask,       \* caller -> n of the id task-n it toggles
    racePending,    \* caller -> the text it is about to write
    raceFile,       \* the content of tasks.md
    raceBefore,     \* the content of tasks.md before the two calls
    \* --- createFeature calls on one .specky directory (SpecCreate) ---
    speckyDirs,     \* the names of the directories in .specky
    crtPc,          \* caller -> "idle" | "numbered"
    crtName,        \* caller -> the name handed to the call in progress
    crtNumber,      \* caller -> the number its getNextFeatureNumber returned
    crtCalls,       \* caller -> the number of calls it has begun
    crtCreated      \* the features returned so far, with what was listed at creation

wfVars == <<wfPc, wfCommand, wfResult, wfLog>>

pathVars == <<pathPc, relativePath, safeUri>>

tglVars == <<tglPc, tglTaskId, tglBefore, tglContent, tglWrites>>

prsVars == <<prsPc, prsContent, prsNumber, prsTasks, prsFlatTasks, prsProgress, prsOverall,
             prsSelected>>

artifactVars == <<featureListed, specMd, planMd, tasksMd>>

storeVars == <<disk, docs>>

runVars == <<pc, flags, selectedTask, cancelled, fullResponse, changeSet, appliedFiles,
             reports, result, preStore, runLog>>

mrgVars == <<mrgPc, mrgPath, mrgNew, mrgExisting, mrgMerged, mrgNext>>

\* the variables of the specifications of the single operations added later
xtrVars == <<xtrPc, xtrResponse, xtrChanges>>

ctxVars == <<ctxPc, ctxTitle, ctxFolders, ctxFiles, ctxPaths, ctxIndex, ctxChunks, ctxUsed,
             ctxResult>>

raceVars == <<racePc, raceTask, racePending, raceFile, raceBefore>>

crtVars == <<speckyDirs, crtPc, crtName, crtNumber, crtCalls, crtCreated>>

extVars == <<mrgVars, xtrVars, ctxVars, raceVars, crtVars>>

\* the variables of the specifications up to the /implement run
baseVars == <<pathVars, tglVars, prsVars, wfVars, artifactVars, gateResult, storeVars, runVars>>

vars == <<baseVars, extVars>>

\* null / undefined results: the empty sequence (no location, no text)
Null == <<>>

(***************************************************************************)
(* Generic string helpers (sequences of characters).                       *)
(***************************************************************************)
\* all sequences over S of length 0..n
SeqsUpTo(S, n) == UNION {[1..k -> S] : k \in 0..n}

\* String.prototype.startsWith
StartsWith(s, p) == Len(s) >= Len(p) /\ SubSeq(s, 1, Len(p)) = p

\* String.prototype.includes
Includes(s, p) == \E i \in 1..(Len(s) - Len(p) + 1) : SubSeq(s, i, i + Len(p) - 1) = p

\* the characters String.prototype.trim and the regex class \s remove
IsSpace(c) == c \in {" ", "\t", "\r", "\n"}

RECURSIVE TrimStart(_)
TrimStart(s) == IF s # <<>> /\ IsSpace(Head(s)) THEN TrimStart(Tail(s)) ELSE s

RECURSIVE TrimEnd(_)
TrimEnd(s) == IF s # <<>> /\ IsSpace(s[Len(s)]) THEN TrimEnd(SubSeq(s, 1, Len(s) - 1)) ELSE s

\* String.prototype.trim
Trim(s) == TrimEnd(TrimStart(s))

\* String.prototype.split(sep) for a one-character separator: always at least
\* one piece, empty pieces kept
RECURSIVE Ascending(_)
Ascending(S) ==
    IF S = {} THEN <<>>
    ELSE LET least == CHOOSE k \in S : \A j \in S : k <= j IN
         <<least>> \o Ascending(S \ {least})

Split(s, sep) ==
    LET cuts == Ascending({i \in 1..Len(s) : s[i] = sep}) IN
    [k \in 1..(Len(cuts) + 1) |->
        SubSeq(s, IF k = 1 THEN 1 ELSE cuts[k - 1] + 1,
                  IF k > Len(cuts) THEN Len(s) ELSE cuts[k] - 1)]

(***************************************************************************)
(* Path sanitizer: SpeckyChatParticipant.safeResolveWorkspaceFile          *)
(***************************************************************************)
\* the workspace root, as the list of its path segments
workspaceRoot == << <<"w", "s">> >>

\* relativePath.replace(/\\/g, "/")
ReplaceBackslashes(s) == [i \in 1..Len(s) |-> IF s[i] = "\\" THEN "/" ELSE s[i]]

LowerLetters ==
    {"a", "b", "c", "d", "e", "f", "g", "h", "i", "j", "k", "l", "m",
     "n", "o", "p", "q", "r", "s", "t", "u", "v", "w", "x", "y", "z"}

UpperLetters ==
    {"A", "B", "C", "D", "E", "F", "G", "H", "I", "J", "K", "L", "M",
     "N", "O", "P", "Q", "R", "S", "T", "U", "V", "W", "X", "Y", "Z"}

Digits == {"0", "1", "2", "3", "4", "5", "6", "7", "8", "9"}

\* [a-zA-Z]
IsLetter(c) == c \in LowerLetters \cup UpperLetters

\* the regex class \w
IsWordChar(c) == c \in LowerLetters \cup UpperLetters \cup Digits \cup {"_"}

\* String.prototype.endsWith
EndsWith(s, suffix) ==
    Len(s) >= Len(suffix) /\ SubSeq(s, Len(s) - Len(suffix) + 1, Len(s)) = suffix

\* least element of a non-empty set of numbers
Min(S) == CHOOSE k \in S : \A j \in S : k <= j

\* /^[a-zA-Z]:/.test(normalized)
HasDrivePrefix(s) == Len(s) >= 2 /\ IsLetter(s[1]) /\ s[2] = ":"

\* vscode.Uri.joinPath(base, ...segments): posix join then normalize, where
\* "" and "." segments vanish and ".." removes the segment before it
RECURSIVE NormalizeSegments(_, _)
NormalizeSegments(done, todo) ==
    IF todo = <<>> THEN done
    ELSE LET seg == Head(todo) IN
         IF seg = <<>> \/ seg = <<".">> THEN NormalizeSegments(done, Tail(todo))
         ELSE IF seg = <<".", ".">>
              THEN NormalizeSegments(IF done = <<>> THEN done
                                     ELSE SubSeq(done, 1, Len(done) - 1), Tail(todo))
              ELSE NormalizeSegments(Append(done, seg), Tail(todo))

JoinPath(base, segments) == NormalizeSegments(base, segments)

\* segments.some((s) => s === ".." || s === "." || s.length === 0)
SuspiciousSegment_NoDotDot(seg) == seg = <<".">> \/ seg = <<>>

SuspiciousSegment(seg) == seg = <<".", ".">> \/ seg = <<".">> \/ seg = <<>>

\* the guards before the segment test
LeadingGuard_NoTilde(normalized) == StartsWith(normalized, <<"/">>)

LeadingGuard(normalized) == StartsWith(normalized, <<"/">>) \/ StartsWith(normalized, <<"~">>)

SafeResolveWorkspaceFile(root, path) ==
    LET normalized == Trim(ReplaceBackslashes(path))
        segments == Split(normalized, "/")
    IN  IF Len(normalized) = 0 THEN Null
        ELSE IF LeadingGuard(normalized) THEN Null
        ELSE IF \E i \in 1..Len(segments) : SuspiciousSegment(segments[i]) THEN Null
        ELSE IF HasDrivePrefix(normalized) THEN Null
        ELSE JoinPath(root, [i \in 1..Len(segments) |-> segments[i]])

(***************************************************************************)
(* tasks.md: SpeckyFileManager.parseTasksFromContent, findTask, toggleTask *)
(***************************************************************************)
\* lines.join("\n")
RECURSIVE Join(_, _)
Join(lines, sep) ==
    IF lines = <<>> THEN <<>>
    ELSE IF Len(lines) = 1 THEN lines[1]
    ELSE lines[1] \o <<sep>> \o Join(Tail(lines), sep)

\* number of leading characters of s matched by \s*
RECURSIVE LeadingSpaces(_)
LeadingSpaces(s) == IF s # <<>> /\ IsSpace(Head(s)) THEN 1 + LeadingSpaces(Tail(s)) ELSE 0

\* the regex atom "." matches anything but a line terminator
IsDotChar(c) == c \notin {"\n", "\r"}

\* the part of the line after the indentation
AfterIndent(line) == SubSeq(line, LeadingSpaces(line) + 1, Len(line))

\* line.match(/^(\s*)- \[([ xX])\] (.+)$/) succeeds
MatchesCheckbox(line) ==
    LET rest == AfterIndent(line) IN
        /\ Len(rest) >= 7
        /\ SubSeq(rest, 1, 3) = <<"-", " ", "[">>
        /\ rest[4] \in {" ", "x", "X"}
        /\ SubSeq(rest, 5, 6) = <<"]", " ">>
        /\ \A i \in 7..Len(rest) : IsDotChar(rest[i])

\* Math.floor(match[1].length / 2)
IndentLevel(line) == LeadingSpaces(line) \div 2

\* match[2].toLowerCase() === "x"
MarkerCompleted(line) == AfterIndent(line)[4] \in {"x", "X"}

\* match[3].trim()
TitleOf(line) == Trim(SubSeq(AfterIndent(line), 7, Len(AfterIndent(line))))

\* parentStack[level] when it holds a task (0: null, a hole or out of range)
StackAt(stack, level) == IF level >= 0 /\ level < Len(stack) THEN stack[level + 1] ELSE 0

\* for (level = parentLevel - 1; level >= 0; level--) if (parentStack[level]) ...
RECURSIVE NearestParent(_, _)
NearestParent(stack, level) ==
    IF level < 0 THEN 0
    ELSE IF StackAt(stack, level) # 0 THEN StackAt(stack, level)
    ELSE NearestParent(stack, level - 1)

\* parentStack[indentLevel] = task; parentStack.length = indentLevel + 1
StackSet(stack, level, n) ==
    [k \in 1..(level + 1) |-> IF k = level + 1 THEN n ELSE StackAt(stack, k - 1)]

\* the node whose subtasks array the task of a line at this level is pushed
\* to (parent.subtasks.push, parentStack[level].subtasks.push), 0 when it is
\* pushed to no subtasks array
SubtasksTarget(stack, level) ==
    IF level = 0 THEN 0
    ELSE IF StackAt(stack, level - 1) # 0 THEN StackAt(stack, level - 1)
    ELSE NearestParent(stack, level - 2)

\* (tasks.push only for a line without indentation)
RootPush_TopLevelOnly(stack, level) == level = 0

\* tasks.push(task) is executed: a line at level 0, or no parent at
\* level - 1 and !parentStack.slice(0, parentLevel).some((p) => p !== null)
\* (some() skips the holes of the array, and a null entry fails the test)
RootPush(stack, level) ==
    \/ level = 0
    \/ /\ StackAt(stack, level - 1) = 0
       /\ ~\E k \in 0..(level - 2) : StackAt(stack, k) # 0

\* the parent of a task that was pushed to no array at all
NoArray == -1

\* The parse loop.  The tree is kept as the list of its nodes in creation
\* order; node n has id task-(n-1) and parent = 0 for a root task, else the
\* number of the node whose subtasks array it was pushed to.
RECURSIVE ParseLoop(_, _, _, _)
ParseLoop(lines, i, nodes, stack) ==
    IF i > Len(lines) THEN nodes
    ELSE IF ~MatchesCheckbox(lines[i]) THEN ParseLoop(lines, i + 1, nodes, stack)
    ELSE LET level == IndentLevel(lines[i])
             n == Len(nodes) + 1
             target == SubtasksTarget(stack, level)
             parent == IF target # 0 THEN target
                       ELSE IF RootPush(stack, level) THEN 0 ELSE NoArray
             task == [id |-> n - 1, title |-> TitleOf(lines[i]),
                      completed |-> MarkerCompleted(lines[i]),
                      lineNumber |-> i, parent |-> parent]
         IN  ParseLoop(lines, i + 1, Append(nodes, task),
                       IF level = 0 THEN <<n>> ELSE StackSet(stack, level, n))

ParseTasksFromContent(content) == ParseLoop(Split(content, "\n"), 1, <<>>, <<0>>)

\* parseTasksFromContent of services/fileManager.ts: a task without
\* indentation is a root, any indented task is pushed to the subtasks of the
\* last root, or to no array at all when there is no root yet.  taskId
\* counts the matching lines; lastRoot is the node number of tasks[tasks.length - 1]
RECURSIVE ParseFlatLoop(_, _, _, _, _)
ParseFlatLoop(lines, i, nodes, taskId, lastRoot) ==
    IF i > Len(lines) THEN nodes
    ELSE IF ~MatchesCheckbox(lines[i]) THEN ParseFlatLoop(lines, i + 1, nodes, taskId, lastRoot)
    ELSE LET indent == LeadingSpaces(lines[i])
             task == [id |-> taskId, title |-> TitleOf(lines[i]),
                      completed |-> MarkerCompleted(lines[i]),
                      lineNumber |-> i, parent |-> IF indent = 0 THEN 0 ELSE lastRoot]
         IN  IF indent = 0
             THEN ParseFlatLoop(lines, i + 1, Append(nodes, task), taskId + 1, Len(nodes) + 1)
             ELSE IF lastRoot # 0
             THEN ParseFlatLoop(lines, i + 1, Append(nodes, task), taskId + 1, lastRoot)
             ELSE ParseFlatLoop(lines, i + 1, nodes, taskId + 1, lastRoot)

ParseTasksFlat(content) == ParseFlatLoop(Split(content, "\n"), 1, <<>>, 0, 0)

\* (the subtasks of a task are pushed before the task itself)
RECURSIVE Walk_SubtasksFirst(_, _, _)
Walk_SubtasksFirst(nodes, parent, from) ==
    IF from > Len(nodes) THEN <<>>
    ELSE IF nodes[from].parent = parent
         THEN Walk_SubtasksFirst(nodes, from, from + 1) \o <<from>>
              \o Walk_SubtasksFirst(nodes, parent, from + 1)
         ELSE Walk_SubtasksFirst(nodes, parent, from + 1)

\* pre-order walk of the tree: a task, then its subtasks in push order
RECURSIVE Walk(_, _, _)
Walk(nodes, parent, from) ==
    IF from > Len(nodes) THEN <<>>
    ELSE IF nodes[from].parent = parent
         THEN <<from>> \o Walk(nodes, from, from + 1) \o Walk(nodes, parent, from + 1)
         ELSE Walk(nodes, parent, from + 1)

\* SpeckyChatParticipant.flattenTasks
FlattenTasks(nodes) == LET order == Walk(nodes, 0, 1) IN [k \in 1..Len(order) |-> nodes[order[k]]]

\* SpeckyFileManager.findTask: depth-first, first task with the id; <<>> if none
FindTask(nodes, taskId) ==
    LET flat == FlattenTasks(nodes)
        hits == {k \in 1..Len(flat) : flat[k].id = taskId}
    IN  IF hits = {} THEN <<>> ELSE <<flat[CHOOSE k \in hits : \A j \in hits : k <= j]>>

\* (a replace with the g flag: every occurrence is replaced)
RECURSIVE ReplaceFirst_Global(_, _, _)
ReplaceFirst_Global(line, patterns, replacement) ==
    IF Len(line) < 3 THEN line
    ELSE IF SubSeq(line, 1, 3) \in patterns
         THEN replacement \o ReplaceFirst_Global(SubSeq(line, 4, Len(line)), patterns, replacement)
         ELSE <<Head(line)>> \o ReplaceFirst_Global(Tail(line), patterns, replacement)

\* String.prototype.replace with a non-global pattern: the first occurrence
\* of one of the three-character patterns is replaced
ReplaceFirst(line, patterns, replacement) ==
    LET hits == {i \in 1..(Len(line) - 2) : SubSeq(line, i, i + 2) \in patterns} IN
        IF hits = {} THEN line
        ELSE LET i == CHOOSE k \in hits : \A j \in hits : k <= j IN
             SubSeq(line, 1, i - 1) \o replacement \o SubSeq(line, i + 3, Len(line))

\* (the pattern without the i flag)
CheckedMarkers_CaseSensitive == {<<"[", "x", "]">>}

\* /\[x\]/i
CheckedMarkers == {<<"[", "x", "]">>, <<"[", "X", "]">>}

\* the line rewrite of toggleTask
ToggleLine(line, completed) ==
    IF completed THEN ReplaceFirst(line, CheckedMarkers, <<"[", " ", "]">>)
    ELSE ReplaceFirst(line, {<<"[", " ", "]">>}, <<"[", "x", "]">>)

\* toggleTask on content that was read: [write |-> whether writeArtifact is
\* called, content |-> the text written]
ToggleContent(content, taskId) ==
    LET found == FindTask(ParseTasksFromContent(content), taskId)
        lines == Split(content, "\n")
    IN  IF content = <<>> \/ found = <<>> THEN [write |-> FALSE, content |-> content]
        ELSE LET task == found[1] IN
             [write |-> TRUE,
              content |-> Join([k \in 1..Len(lines) |->
                                  IF k = task.lineNumber
                                  THEN ToggleLine(lines[k], task.completed)
                                  ELSE lines[k]], "\n")]

\* SpeckyFileManager.countTasks: every task at every nesting level
CountTasks(nodes) == Len(FlattenTasks(nodes))

\* SpeckyFileManager.countCompletedTasks
CountCompletedTasks(nodes) ==
    LET flat == FlattenTasks(nodes) IN Cardinality({k \in 1..Len(flat) : flat[k].completed})

(***************************************************************************)
(* Numbers: the double-precision arithmetic of                              *)
(*   Math.round((completed / total) * 100)                                 *)
(* A positive double is [bits, scale]: a significand of SignificandBits    *)
(* binary digits, the first of them 1, standing for the integer they       *)
(* spell times 2^(-scale).  Zero is the empty significand.  Long division  *)
(* and multiplication work on groups of LimbBits binary digits, so that    *)
(* every intermediate integer stays small.                                 *)
(***************************************************************************)
SignificandBits == 53

LimbBits == 13

Limb == 2 ^ LimbBits

Zero == [bits |-> <<>>, scale |-> 0]

\* the integer spelt by a short sequence of binary digits
RECURSIVE ToInt(_)
ToInt(bits) == IF bits = <<>> THEN 0 ELSE 2 * ToInt(SubSeq(bits, 1, Len(bits) - 1)) + bits[Len(bits)]

\* the binary digits of a sequence of limbs, most significant first
BitsOf(limbs) ==
    [j \in 1..(LimbBits * Len(limbs)) |->
        (limbs[((j - 1) \div LimbBits) + 1] \div (2 ^ (LimbBits - 1 - ((j - 1) % LimbBits)))) % 2]

\* the limbs of a sequence of binary digits, padded with zeros in front
LimbsOf(bits) ==
    LET n == (Len(bits) + LimbBits - 1) \div LimbBits
        padded == [j \in 1..(n * LimbBits - Len(bits)) |-> 0] \o bits
    IN  [i \in 1..n |-> ToInt(SubSeq(padded, (i - 1) * LimbBits + 1, i * LimbBits))]

\* the first n limbs of r / t after the point, for 0 <= r < t
RECURSIVE QuotientLimbs(_, _, _)
QuotientLimbs(r, t, n) ==
    IF n = 0 THEN <<>>
    ELSE <<(r * Limb) \div t>> \o QuotientLimbs((r * Limb) % t, t, n - 1)

\* the remainder left after these n limbs
RECURSIVE RemainderAfter(_, _, _)
RemainderAfter(r, t, n) == IF n = 0 THEN r ELSE RemainderAfter((r * Limb) % t, t, n - 1)

\* the number of zero digits of r / t after the point before its first 1,
\* for 0 < r < t
RECURSIVE LeadingZeros(_, _)
LeadingZeros(r, t) == IF 2 * r >= t THEN 0 ELSE 1 + LeadingZeros(2 * r, t)

\* the digits plus one (the result is one digit longer when all are 1)
Increment(bits) ==
    LET zeros == {j \in 1..Len(bits) : bits[j] = 0} IN
    IF zeros = {} THEN <<1>> \o [j \in 1..Len(bits) |-> 0]
    ELSE LET last == CHOOSE j \in zeros : \A k \in zeros : k <= j IN
         [j \in 1..Len(bits) |-> IF j < last THEN bits[j] ELSE IF j = last THEN 1 ELSE 0]

StripZeros(bits) ==
    LET ones == {j \in 1..Len(bits) : bits[j] = 1} IN
    IF ones = {} THEN <<>>
    ELSE SubSeq(bits, CHOOSE j \in ones : \A k \in ones : j <= k, Len(bits))

\* round to nearest, ties to even: digits (the first is 1, at least
\* SignificandBits of them) times 2^(-scale), more: digits were cut off
\* behind them that are not all 0
RoundToDouble(digits, scale, more) ==
    LET extra == Len(digits) - SignificandBits
        kept == SubSeq(digits, 1, SignificandBits)
        half == extra > 0 /\ digits[SignificandBits + 1] = 1
        sticky == more \/ \E k \in (SignificandBits + 2)..Len(digits) : digits[k] = 1
        up == half /\ (sticky \/ kept[SignificandBits] = 1)
        raised == Increment(kept)
    IN  IF ~up THEN [bits |-> kept, scale |-> scale - extra]
        ELSE IF Len(raised) = SignificandBits THEN [bits |-> raised, scale |-> scale - extra]
        ELSE [bits |-> SubSeq(raised, 1, SignificandBits), scale |-> scale - extra - 1]

\* completed / total for 0 <= completed <= total, total > 0
Divide(completed, total) ==
    IF completed = 0 THEN Zero
    ELSE IF completed = total
         THEN [bits |-> [k \in 1..SignificandBits |-> IF k = 1 THEN 1 ELSE 0],
               scale |-> SignificandBits - 1]
    ELSE LET z == LeadingZeros(completed, total)
             n == (z + SignificandBits + LimbBits) \div LimbBits
             all == BitsOf(QuotientLimbs(completed, total, n))
         IN  RoundToDouble(SubSeq(all, z + 1, Len(all)), Len(all),
                           RemainderAfter(completed, total, n) # 0)

\* the limbs of (the integer spelt by limbs) * k + carry, for 0 < k < Limb
RECURSIVE TimesLimbs(_, _, _)
TimesLimbs(limbs, k, carry) ==
    IF limbs = <<>> THEN (IF carry = 0 THEN <<>> ELSE <<carry>>)
    ELSE TimesLimbs(SubSeq(limbs, 1, Len(limbs) - 1), k, (limbs[Len(limbs)] * k + carry) \div Limb)
         \o <<(limbs[Len(limbs)] * k + carry) % Limb>>

\* x * k for an integer 0 < k < Limb
Times(x, k) ==
    IF x.bits = <<>> THEN Zero
    ELSE RoundToDouble(StripZeros(BitsOf(TimesLimbs(LimbsOf(x.bits), k, 0))), x.scale, FALSE)

\* Math.round(x) for 0 <= x < 2^LimbBits: floor(x + 0.5)
MathRound(x) ==
    IF x.bits = <<>> THEN 0
    ELSE LET whole == SignificandBits - x.scale IN
         (IF whole >= 1 THEN ToInt(SubSeq(x.bits, 1, whole)) ELSE 0)
         + (IF whole >= 0 /\ whole < SignificandBits THEN x.bits[whole + 1] ELSE 0)

\* total > 0 ? Math.round((completed / total) * 100) : 0
Percentage(completed, total) ==
    IF total > 0 THEN MathRound(Times(Divide(completed, total), 100)) ELSE 0

NoProgress == [totalTasks |-> 0, completedTasks |-> 0, percentage |-> 0]

\* SpeckyFileManager.calculateProgress; tasks is the tasks.md artifact
\* [exists, readable, content]: parseTasks gives [] when the read throws
CalculateProgress(tasks) ==
    IF ~tasks.exists THEN NoProgress
    ELSE LET nodes == IF tasks.readable THEN ParseTasksFromContent(tasks.content) ELSE <<>> IN
         [totalTasks |-> CountTasks(nodes), completedTasks |-> CountCompletedTasks(nodes),
          percentage |-> Percentage(CountCompletedTasks(nodes), CountTasks(nodes))]

\* the sum of one field over the features' progress records
RECURSIVE SumOf(_, _)
SumOf(features, field) ==
    IF features = <<>> THEN 0 ELSE features[1][field] + SumOf(Tail(features), field)

\* ProgressTracker.getOverallProgress; features is the sequence of the
\* listed features' progress records
GetOverallProgress(features) ==
    [totalFeatures |-> Len(features),
     totalTasks |-> SumOf(features, "totalTasks"),
     completedTasks |-> SumOf(features, "completedTasks"),
     percentage |-> Percentage(SumOf(features, "completedTasks"), SumOf(features, "totalTasks"))]


(***************************************************************************)
(* Artifacts of the active feature and the quality gate:                   *)
(* QualityGateService.validateForImplementation                            *)
(*                                                                         *)
(* spec.md is kept as what the gate reads of it: whether it can be read,   *)
(* whether it is empty, which required section headers it contains and     *)
(* which open markers; plan.md as its length; tasks.md as its text.        *)
(***************************************************************************)
RequiredSections == {"## Problem Statement", "## Functional Requirements", "## Error Scenarios"}

OpenMarkers == {"TODO", "TBD"}

MinPlanLength == 500

NoSpec == [exists |-> FALSE, readable |-> FALSE, empty |-> TRUE, sections |-> {}, markers |-> {}]

NoPlan == [exists |-> FALSE, readable |-> FALSE, length |-> 0]

NoTasks == [exists |-> FALSE, readable |-> FALSE, content |-> <<>>]

\* readArtifact(feature.id, "spec") is null or ""
SpecUnread(spec) == ~spec.readable \/ spec.empty

\* readArtifact(feature.id, "plan") is null or ""
PlanUnread(plan) == ~plan.readable \/ plan.length = 0

\* handlePlan: if (!spec)
MissingForPlan(spec) == SpecUnread(spec)

\* (only the specification is looked at)
MissingForTasks_SpecOnly(spec, plan) == SpecUnread(spec)

\* handleTasks: if (!spec || !plan)
MissingForTasks(spec, plan) == SpecUnread(spec) \/ PlanUnread(plan)

\* SpeckyFileManager.calculateProgress(artifacts.tasks).totalTasks
TotalTasks(tasks) ==
    IF ~tasks.exists \/ ~tasks.readable THEN 0
    ELSE CountTasks(ParseTasksFromContent(tasks.content))

Check(name, passed, severity) == [name |-> name, passed |-> passed, severity |-> severity]

CheckSpecExists(spec) == Check("Specification Exists", spec.exists, "error")

CheckPlanExists(plan) == Check("Plan Exists", plan.exists, "error")

CheckTasksExist(tasks) == Check("Tasks Exist", tasks.exists, "error")

CheckSpecCompleteness(spec) ==
    IF ~spec.exists THEN Check("Specification Complete", FALSE, "info")
    ELSE IF SpecUnread(spec) THEN Check("Specification Complete", FALSE, "warning")
    ELSE IF RequiredSections \ spec.sections # {} THEN Check("Specification Complete", FALSE, "warning")
    ELSE IF spec.markers # {} THEN Check("Specification Complete", FALSE, "warning")
    ELSE Check("Specification Complete", TRUE, "info")

CheckPlanCompleteness_Error(plan) ==
    IF ~plan.exists THEN Check("Plan Complete", FALSE, "info")
    ELSE IF ~plan.readable \/ plan.length = 0 THEN Check("Plan Complete", FALSE, "warning")
    ELSE IF plan.length < MinPlanLength THEN Check("Plan Complete", FALSE, "error")
    ELSE Check("Plan Complete", TRUE, "info")

CheckPlanCompleteness(plan) ==
    IF ~plan.exists THEN Check("Plan Complete", FALSE, "info")
    ELSE IF ~plan.readable \/ plan.length = 0 THEN Check("Plan Complete", FALSE, "warning")
    ELSE IF plan.length < MinPlanLength THEN Check("Plan Complete", FALSE, "warning")
    ELSE Check("Plan Complete", TRUE, "info")

CheckTasksProgress(tasks) ==
    IF TotalTasks(tasks) = 0 THEN Check("Tasks Defined", FALSE, "warning")
    ELSE Check("Tasks Progress", TRUE, "info")

\* checks.filter((c) => c.severity === sev && !c.passed).length
Unresolved(checks, sev) ==
    Cardinality({i \in 1..Len(checks) : checks[i].severity = sev /\ ~checks[i].passed})

ValidateForImplementation(listed, spec, plan, tasks) ==
    IF ~listed
    THEN [passed |-> FALSE, checks |-> <<Check("Feature Exists", FALSE, "error")>>,
          summary |-> "Feature not found"]
    ELSE LET checks == << CheckSpecExists(spec), CheckPlanExists(plan), CheckTasksExist(tasks),
                          CheckSpecCompleteness(spec), CheckPlanCompleteness(plan),
                          CheckTasksProgress(tasks) >>
             errors == Unresolved(checks, "error")
             warnings == Unresolved(checks, "warning")
         IN  [passed |-> errors = 0, checks |-> checks,
              summary |-> IF errors = 0 /\ warnings = 0 THEN "All quality gates passed"
                          ELSE IF errors = 0 THEN "Ready with warnings"
                          ELSE "errors must be resolved"]

NoGateResult == [passed |-> FALSE, checks |-> <<>>, summary |-> "not run"]

(***************************************************************************)
(* Change extraction: SpeckyChatParticipant.parseCodeChanges               *)
(*   /####\s*BT([^BT]+)BT[^\n]*\nBTBTBT(?:\w+)?\n([\s\S]*?)\nBTBTBT/g     *)
(*   where BT stands for the backtick character (written Backtick below)  *)
(***************************************************************************)
\* s.slice(i - 1, j): the characters i..j of s that exist
Slice(s, i, j) == SubSeq(s, i, IF j > Len(s) THEN Len(s) ELSE j)

\* first position >= i of s that is no white space (Len(s) + 1 if none)
RECURSIVE SkipSpaces(_, _)
SkipSpaces(s, i) == IF i <= Len(s) /\ IsSpace(s[i]) THEN SkipSpaces(s, i + 1) ELSE i

RECURSIVE SkipWord(_, _)
SkipWord(s, i) == IF i <= Len(s) /\ IsWordChar(s[i]) THEN SkipWord(s, i + 1) ELSE i

\* first position >= i where s holds the text t (0 if none)
FindFrom(s, t, i) ==
    LET hits == {k \in i..(Len(s) - Len(t) + 1) : SubSeq(s, k, k + Len(t) - 1) = t} IN
        IF hits = {} THEN 0 ELSE Min(hits)

\* the backtick character, one element of a text like any other character
Backtick == "BT"

Fence == <<Backtick, Backtick, Backtick>>

\* one attempt of the regex at position i: <<>> or <<[path, content, next]>>
MatchFileBlockAt(s, i) ==
    IF Slice(s, i, i + 3) # <<"#", "#", "#", "#">> THEN <<>>
    ELSE LET tick1 == SkipSpaces(s, i + 4) IN
         IF tick1 > Len(s) \/ s[tick1] # Backtick THEN <<>>
         ELSE LET tick2 == FindFrom(s, <<Backtick>>, tick1 + 1) IN
              IF tick2 = 0 \/ tick2 = tick1 + 1 THEN <<>>
              ELSE LET nl == FindFrom(s, <<"\n">>, tick2 + 1) IN
                   IF nl = 0 \/ Slice(s, nl + 1, nl + 3) # Fence THEN <<>>
                   ELSE LET lang == SkipWord(s, nl + 4) IN
                        IF lang > Len(s) \/ s[lang] # "\n" THEN <<>>
                        ELSE LET close == FindFrom(s, <<"\n">> \o Fence, lang + 1) IN
                             IF close = 0 THEN <<>>
                             ELSE << [path |-> SubSeq(s, tick1 + 1, tick2 - 1),
                                      content |-> SubSeq(s, lang + 1, close - 1),
                                      next |-> close + 4] >>

\* while ((match = fileBlockRegex.exec(response)) !== null) ...
RECURSIVE ScanFileBlocks(_, _)
ScanFileBlocks(s, i) ==
    IF i > Len(s) THEN <<>>
    ELSE LET m == MatchFileBlockAt(s, i) IN
         IF m = <<>> THEN ScanFileBlocks(s, i + 1)
         ELSE (IF Trim(m[1].path) = <<>> THEN <<>>
               ELSE << [path |-> Trim(m[1].path), content |-> m[1].content] >>)
              \o ScanFileBlocks(s, m[1].next)

ParseCodeChanges(response) == ScanFileBlocks(response, 1)

(***************************************************************************)
(* Merge: SpeckyChatParticipant.mergeCodeChanges                           *)
(***************************************************************************)
Keywords ==
    { <<"f", "u", "n", "c", "t", "i", "o", "n">>, <<"c", "l", "a", "s", "s">>,
      <<"c", "o", "n", "s", "t">>, <<"l", "e", "t">>, <<"v", "a", "r">>,
      <<"i", "n", "t", "e", "r", "f", "a", "c", "e">>, <<"t", "y", "p", "e">> }

\* (word\s+)? at position i: the position after it, or i when it is absent
SkipOptionalWord(s, i, word) ==
    LET j == i + Len(word) IN
        IF Slice(s, i, j - 1) = word /\ j <= Len(s) /\ IsSpace(s[j])
        THEN SkipSpaces(s, j) ELSE i

\* \s*(export\s+)?(async\s+)?(function|...|type)\s+(\w+) tried at position i:
\* the name (\w+) it captures, or <<>> when it does not match
DeclarationNameAt(s, i) ==
    LET a == SkipSpaces(s, i)
        b == SkipOptionalWord(s, a, <<"e", "x", "p", "o", "r", "t">>)
        c == SkipOptionalWord(s, b, <<"a", "s", "y", "n", "c">>)
        kws == {kw \in Keywords : Slice(s, c, c + Len(kw) - 1) = kw
                                   /\ c + Len(kw) <= Len(s) /\ IsSpace(s[c + Len(kw)])}
    IN  IF kws = {} THEN <<>>
        ELSE LET kw == CHOOSE k \in kws : TRUE
                 n == SkipSpaces(s, c + Len(kw))
             IN  SubSeq(s, n, SkipWord(s, n) - 1)

\* the positions where ^ matches under the m flag
LineStarts(s) == {1} \cup {i \in 2..(Len(s) + 1) : s[i - 1] \in {"\n", "\r"}}

\* newCode.match(declarationRegex)[4], or <<>> when there is no match
FirstDeclarationName(newCode) ==
    LET hits == {i \in LineStarts(newCode) : DeclarationNameAt(newCode, i) # <<>>} IN
        IF hits = {} THEN <<>> ELSE DeclarationNameAt(newCode, Min(hits))

\* existingDeclRegex.test(text): the declaration of name, ended by \b
DeclaresName(text, name) == \E i \in LineStarts(text) : DeclarationNameAt(text, i) = name

\* nextDeclRegex.test(line): no m flag, ^ is the start of the line
BeginsDeclaration(line) == DeclarationNameAt(line, 1) # <<>>

\* the number of the first line of the existing file that declares the name
\* (0 when no line does: startLine === -1)
StartLine(lines, name) ==
    LET starts == {i \in 1..Len(lines) : DeclaresName(lines[i], name)} IN
        IF starts = {} THEN 0 ELSE Min(starts)

\* (the scan for the next declaration begins at the start line itself)
EndLine_ScanFromStart(lines, startLine) ==
    LET ends == {i \in startLine..Len(lines) : BeginsDeclaration(lines[i])} IN
        IF ends = {} THEN Len(lines) + 1 ELSE Min(ends)

\* the number of the first line after the start line that begins a
\* declaration (Len(lines) + 1 when none does: endLine = lines.length)
EndLine(lines, startLine) ==
    LET ends == {i \in (startLine + 1)..Len(lines) : BeginsDeclaration(lines[i])} IN
        IF ends = {} THEN Len(lines) + 1 ELSE Min(ends)

\* (the new code is returned in place of the appended text)
AppendNew_DropExisting(existing, newCode) == newCode

\* return existing + "\n\n" + newCode
AppendNew(existing, newCode) == existing \o <<"\n", "\n">> \o newCode

MergeCodeChanges(existing, newCode) ==
    LET name == FirstDeclarationName(newCode)
        lines == Split(existing, "\n")
        newLines == Split(newCode, "\n")
        startLine == StartLine(lines, name)
        endLine == EndLine(lines, startLine)
    IN  IF name = <<>> THEN newCode
        ELSE IF ~DeclaresName(existing, name) \/ startLine = 0
             THEN AppendNew(existing, newCode)
             ELSE Join(SubSeq(lines, 1, startLine - 1) \o newLines
                       \o SubSeq(lines, endLine, Len(lines)), "\n")

\* (the .yml ending is not looked at)
ShouldReplace_NoYml(path, content, existingContent) ==
    \/ 10 * Len(content) > 8 * Len(existingContent)
    \/ Includes(content, <<"/", "*">>)
    \/ Includes(content, <<"i", "m", "p", "o", "r", "t", " ">>)
    \/ EndsWith(path, <<".", "j", "s", "o", "n">>)
    \/ EndsWith(path, <<".", "y", "a", "m", "l">>)
    \/ EndsWith(path, <<".", "m", "d">>)

\* the shouldReplace decision of applyCodeChanges.  The lengths are whole
\* numbers, so content.length > existingContent.length * 0.8 in doubles is
\* the comparison 10 * content.length > 8 * existingContent.length: the
\* double product is within 2^-53 of four fifths of the length, and two
\* whole-number multiples of one fifth that differ are at least 0.2 apart
ShouldReplace(path, content, existingContent) ==
    \/ 10 * Len(content) > 8 * Len(existingContent)
    \/ Includes(content, <<"/", "*", "*">>)
    \/ Includes(content, <<"/", "*">>)
    \/ Includes(content, <<"i", "m", "p", "o", "r", "t", " ">>)
    \/ EndsWith(path, <<".", "j", "s", "o", "n">>)
    \/ EndsWith(path, <<".", "y", "a", "m", "l">>)
    \/ EndsWith(path, <<".", "y", "m", "l">>)
    \/ EndsWith(path, <<".", "m", "d">>)

NextContent(path, content, existingContent) ==
    IF ShouldReplace(path, content, existingContent) THEN content
    ELSE MergeCodeChanges(existingContent, content)

(***************************************************************************)
(* Task selection: ProgressTracker.getTasks / getNextTask and              *)
(* SpeckyChatParticipant.getSelectedTask                                   *)
(***************************************************************************)
\* getTasks: [] when the feature is not listed or tasks.md does not exist
GetTasks(listed, tasks) ==
    IF ~listed \/ ~tasks.exists \/ ~tasks.readable THEN <<>>
    ELSE ParseTasksFromContent(tasks.content)

\* findFirstIncomplete: the first task of the pre-order walk that is not
\* completed; Null if none
FindFirstIncomplete(nodes) ==
    LET flat == FlattenTasks(nodes)
        open == {k \in 1..Len(flat) : ~flat[k].completed}
    IN  IF open = {} THEN Null ELSE <<flat[Min(open)]>>

\* (the number indexes the top-level tasks only)
GetSelectedTask_TopLevel(listed, tasks, taskNumber) ==
    IF taskNumber = 0 THEN FindFirstIncomplete(GetTasks(listed, tasks))
    ELSE LET roots == SelectSeq(GetTasks(listed, tasks), LAMBDA t : t.parent = 0) IN
         IF taskNumber > Len(roots) THEN Null ELSE <<roots[taskNumber]>>

\* getSelectedTask; taskNumber 0 stands for null (0 is falsy as well)
GetSelectedTask(listed, tasks, taskNumber) ==
    IF taskNumber = 0 THEN FindFirstIncomplete(GetTasks(listed, tasks))
    ELSE LET flat == FlattenTasks(GetTasks(listed, tasks)) IN
         IF taskNumber > Len(flat) THEN Null ELSE <<flat[taskNumber]>>

(***************************************************************************)
(* The workspace: files on disk and the editor's documents                 *)
(***************************************************************************)
NoFile == [exists |-> FALSE, content |-> <<>>]

File(content) == [exists |-> TRUE, content |-> content]

\* a document without unsaved changes
Clean == [open |-> FALSE, content |-> <<>>]

\* doc.getText(): the unsaved text of the document if any, else the file
DocText(dsk, unsaved, uri) == IF unsaved[uri].open THEN unsaved[uri].content ELSE dsk[uri].content

(***************************************************************************)
(* SpeckyChatParticipant.applyCodeChanges                                  *)
(***************************************************************************)
\* (the loop is left at the first rejected path)
AfterRejected_Abort(rest) == <<>>

\* if (!safeUri) continue: the loop goes on with the remaining changes
AfterRejected(rest) == rest

\* the for loop that fills the WorkspaceEdit: one operation per change that
\* is pushed to appliedFiles
RECURSIVE BuildEdit(_, _, _, _)
BuildEdit(changes, dsk, unsaved, unreadable) ==
    IF changes = <<>> THEN <<>>
    ELSE LET change == Head(changes)
             uri == SafeResolveWorkspaceFile(workspaceRoot, change.path)
         IN  IF uri = Null THEN BuildEdit(AfterRejected(Tail(changes)), dsk, unsaved, unreadable)
             ELSE (IF ~dsk[uri].exists
                   THEN << [path |-> change.path, uri |-> uri, kind |-> "create",
                            content |-> change.content] >>
                   ELSE IF uri \in unreadable THEN <<>>
                   ELSE << [path |-> change.path, uri |-> uri, kind |-> "replace",
                            content |-> NextContent(change.path, change.content,
                                                    DocText(dsk, unsaved, uri))] >>)
                  \o BuildEdit(Tail(changes), dsk, unsaved, unreadable)

PathsOf(ops) == [k \in 1..Len(ops) |-> ops[k].path]

\* (the built list is returned whatever the commit reported)
AppliedList_IgnoreCommit(ops, applied) == PathsOf(ops)

\* if (!applied) return []; ... return appliedFiles
AppliedList(ops, applied) == IF applied THEN PathsOf(ops) ELSE <<>>

\* the operations of the edit on one location, in the order they were added
RECURSIVE OpsOn(_, _)
OpsOn(ops, uri) ==
    IF ops = <<>> THEN <<>>
    ELSE (IF Head(ops).uri = uri THEN <<Head(ops)>> ELSE <<>>) \o OpsOn(Tail(ops), uri)

RECURSIVE Concat(_)
Concat(ops) == IF ops = <<>> THEN <<>> ELSE Head(ops).content \o Concat(Tail(ops))

\* two full-range replacements of one document overlap: such an edit is
\* never committed
Committable(ops) ==
    \A i, j \in 1..Len(ops) : (i # j /\ ops[i].uri = ops[j].uri) => ops[i].kind = "create"

\* the text a location's document holds once the edit is committed:
\* insertions at position (0, 0) of a created file follow one another
EditedText(ops, uri) ==
    LET mine == OpsOn(ops, uri) IN
        IF mine[1].kind = "create" THEN Concat(mine) ELSE mine[1].content

Targets(ops) == {ops[k].uri : k \in 1..Len(ops)}

\* workspace.applyEdit then doc.save() for every applied path:
\* the store after a committed edit whose saves fail on saveFails
DiskAfterApply(dsk, ops, saveFails) ==
    [uri \in DOMAIN dsk |->
        IF uri \notin Targets(ops) THEN dsk[uri]
        ELSE IF uri \in saveFails THEN File(dsk[uri].content)
        ELSE File(EditedText(ops, uri))]

DocsAfterApply(unsaved, ops, saveFails) ==
    [uri \in DOMAIN unsaved |->
        IF uri \notin Targets(ops) THEN unsaved[uri]
        ELSE IF uri \in saveFails THEN [open |-> TRUE, content |-> EditedText(ops, uri)]
        ELSE Clean]

\* previewCodeChanges: the number of diff views opened
RECURSIVE PreviewCount(_)
PreviewCount(changes) ==
    IF changes = <<>> THEN 0
    ELSE (IF SafeResolveWorkspaceFile(workspaceRoot, Head(changes).path) = Null THEN 0 ELSE 1)
         + PreviewCount(Tail(changes))

(***************************************************************************)
(* Smart context: SpeckyChatParticipant.extractFilePathsFromText and       *)
(* getSmartContextFromTask                                                 *)
(***************************************************************************)
Alphabet ==
    <<"a", "b", "c", "d", "e", "f", "g", "h", "i", "j", "k", "l", "m",
      "n", "o", "p", "q", "r", "s", "t", "u", "v", "w", "x", "y", "z">>

Capitals ==
    <<"A", "B", "C", "D", "E", "F", "G", "H", "I", "J", "K", "L", "M",
      "N", "O", "P", "Q", "R", "S", "T", "U", "V", "W", "X", "Y", "Z">>

\* the letter a pattern with the i flag compares
ToLowerChar(c) ==
    IF c \in UpperLetters THEN Alphabet[CHOOSE k \in 1..Len(Capitals) : Capitals[k] = c] ELSE c

ToLowerCase(s) == [k \in 1..Len(s) |-> ToLowerChar(s[k])]

\* (?:ts|js|tsx|jsx|json|md|yml|yaml|css|html)
Extensions ==
    { <<"t", "s">>, <<"j", "s">>, <<"t", "s", "x">>, <<"j", "s", "x">>,
      <<"j", "s", "o", "n">>, <<"m", "d">>, <<"y", "m", "l">>, <<"y", "a", "m", "l">>,
      <<"c", "s", "s">>, <<"h", "t", "m", "l">> }

\* t is matched by .+\.(?:ts|...|html) under the i flag, . being the class
\* of the characters before the extension
HasExtension(t) ==
    \E ext \in Extensions :
        /\ Len(t) >= Len(ext) + 2
        /\ t[Len(t) - Len(ext)] = "."
        /\ ToLowerCase(SubSeq(t, Len(t) - Len(ext) + 1, Len(t))) = ext

\* the matches of /`([^`]+\.(?:ts|...|html))`/gi from position i on
RECURSIVE BacktickedPaths(_, _)
BacktickedPaths(text, i) ==
    IF i > Len(text) THEN <<>>
    ELSE IF text[i] # Backtick THEN BacktickedPaths(text, i + 1)
    ELSE LET close == FindFrom(text, <<Backtick>>, i + 1) IN
         IF close = 0 THEN <<>>
         ELSE IF HasExtension(SubSeq(text, i + 1, close - 1))
              THEN <<SubSeq(text, i + 1, close - 1)>> \o BacktickedPaths(text, close + 1)
              ELSE BacktickedPaths(text, i + 1)

\* [\w.-]
IsPathChar(c) == IsWordChar(c) \/ c \in {".", "-"}

\* \b holds before position i
WordBoundary(text, i) ==
    (i > 1 /\ i - 1 <= Len(text) /\ IsWordChar(text[i - 1]))
        # (i >= 1 /\ i <= Len(text) /\ IsWordChar(text[i]))

\* t is matched by [\w.-]+(?:\/[\w.-]+)+\.(?:ts|...|html)
IsPlainPath(t) ==
    LET segments == Split(t, "/") IN
        /\ Len(segments) >= 2
        /\ \A k \in 1..Len(segments) :
              segments[k] # <<>> /\ \A c \in 1..Len(segments[k]) : IsPathChar(segments[k][c])
        /\ HasExtension(segments[Len(segments)])

\* the matches of /\b([\w.-]+(?:\/[\w.-]+)+\.(?:ts|...|html))\b/gi from
\* position i on: at the first position where one exists, the longest match
\* (the quantifiers are greedy and give back one character at a time)
RECURSIVE PlainPaths(_, _)
PlainPaths(text, i) ==
    IF i > Len(text) THEN <<>>
    ELSE LET ends == {e \in i..Len(text) :
                         /\ WordBoundary(text, i) /\ WordBoundary(text, e + 1)
                         /\ IsPlainPath(SubSeq(text, i, e))}
         IN  IF ends = {} THEN PlainPaths(text, i + 1)
             ELSE LET last == CHOOSE e \in ends : \A o \in ends : o <= e IN
                  <<SubSeq(text, i, last)>> \o PlainPaths(text, last + 1)

\* the members of a Set in insertion order: the first occurrences
RECURSIVE Distinct(_, _)
Distinct(found, seen) ==
    IF found = <<>> THEN <<>>
    ELSE IF Head(found) \in seen THEN Distinct(Tail(found), seen)
    ELSE <<Head(found)>> \o Distinct(Tail(found), seen \cup {Head(found)})

\* .slice(0, 6)
MaxSmartContextPaths == 6

ExtractFilePathsFromText(text) ==
    LET found == Distinct(BacktickedPaths(text, 1) \o PlainPaths(text, 1), {}) IN
        SubSeq(found, 1, Min({Len(found), MaxSmartContextPaths}))

\* SpeckyChatParticipant.MAX_SMART_CONTEXT_CHARS
MaxSmartContextChars == 20000

\* `\n\n<file path="${path}">\n`
Header(path) ==
    <<"\n", "\n", "<", "f", "i", "l", "e", " ", "p", "a", "t", "h", "=", "\"">> \o path
        \o <<"\"", ">", "\n">>

\* `\n</file>\n`
Footer == <<"\n", "<", "/", "f", "i", "l", "e", ">", "\n">>

\* Math.max(0, n)
AtLeastZero(n) == IF n > 0 THEN n ELSE 0

\* (the header and the footer are not counted against the budget)
Included_WholeBudget(content, remaining, path) == Slice(content, 1, remaining)

\* content.slice(0, Math.max(0, remaining - header.length - footer.length))
Included(content, remaining, path) ==
    Slice(content, 1, AtLeastZero(remaining - Len(Header(path)) - Len(Footer)))

\* a text of n characters
TextOfLength(n) == [k \in 1..n |-> "x"]

\* a file of the workspace as stat and readFile see it; the workspace keeps
\* the length of a file, its text is that many characters
NoContextFile == [kind |-> "none", readable |-> FALSE, size |-> 0]

\* Buffer.from(await vscode.workspace.fs.readFile(safeUri)).toString("utf-8")
ContentOf(file) == TextOfLength(file.size)

\* the file at a location (nothing at a location the workspace does not hold)
ContextFile(files, uri) == IF uri \in DOMAIN files THEN files[uri] ELSE NoContextFile

\* one pass of the loop over the paths: "skip" (continue, or an error that
\* is caught), "stop" (break), or "push" with the entry
VisitOutcome(path, files, used) ==
    LET uri == SafeResolveWorkspaceFile(workspaceRoot, path)
        file == ContextFile(files, uri)
        remaining == MaxSmartContextChars - used
        included == Included(ContentOf(file), remaining, path)
    IN  IF uri = Null THEN [step |-> "skip"]
        ELSE IF file.kind # "file" \/ ~file.readable \/ ContentOf(file) = <<>>
             THEN [step |-> "skip"]
        ELSE IF remaining <= 0 \/ included = <<>> THEN [step |-> "stop"]
        ELSE [step |-> "push",
              entry |-> [path |-> path, header |-> Header(path), included |-> included,
                         footer |-> Footer]]

\* the length of an entry: header.length + included.length + footer.length
EntryLength(entry) == Len(entry.header) + Len(entry.included) + Len(entry.footer)

\* the text of the entries, chunks.join("\n")
RECURSIVE JoinChunks(_)
JoinChunks(chunks) ==
    IF chunks = <<>> THEN <<>>
    ELSE Head(chunks).header \o Head(chunks).included \o Head(chunks).footer
         \o (IF Len(chunks) = 1 THEN <<>> ELSE <<"\n">> \o JoinChunks(Tail(chunks)))

\* <smart_context>\n...\n${chunks.join("\n")}\n</smart_context>, the sentence
\* of the opening being kept as one element
SmartContext(chunks) ==
    IF chunks = <<>> THEN <<>>
    ELSE <<"<smart_context>", "\n", "The following files are referenced by the task.", "\n">>
         \o JoinChunks(chunks) \o <<"\n", "</smart_context>">>

(***************************************************************************)
(* Bounds and input alphabets                                              *)
(***************************************************************************)
MaxPathLen == 4

MaxLines == 3

PathChars == {"a", "1", ".", "/", "\\", "~", ":", " "}

Spaces(n) == [k \in 1..n |-> " "]

TaskLine(indent, marker, title) == Spaces(indent) \o <<"-", " ", "[", marker, "]", " ">> \o title

\* candidate lines of a tasks.md: checkbox lines at several indentations,
\* with titles that themselves contain a marker, and lines that are no tasks
CandidateLines ==
    { TaskLine(0, " ", <<"a">>),
      TaskLine(0, "x", <<"a">>),
      TaskLine(2, "X", <<"b">>),
      TaskLine(2, " ", <<"[", " ", "]">>),
      TaskLine(1, "x", <<"[", "X", "]">>),
      TaskLine(4, " ", <<"c", " ">>),
      <<"[", "x", "]", " ", "n">>,
      <<"-", " ", "[", " ", "]", " ">>,
      TaskLine(0, " ", <<"a", "\r">>),
      <<>> }

TaskTexts == {Join(ls, "\n") : ls \in (SeqsUpTo(CandidateLines, MaxLines) \ {<<>>})}

MaxTasks == 40

\* a tasks.md of total tasks on three nesting levels, the first completed of
\* them checked
ProgressText(total, completed) ==
    Join([k \in 1..total |->
            TaskLine(2 * ((k - 1) % 3), IF k <= completed THEN "x" ELSE " ", <<"a">>)], "\n")

ProgressTexts ==
    UNION {{ProgressText(total, completed) : completed \in 0..total} : total \in 0..MaxTasks}

\* the tasks.md artifact as the readers may find it
TasksArtifacts(content) ==
    { [exists |-> FALSE, readable |-> FALSE, content |-> <<>>],
      [exists |-> TRUE, readable |-> FALSE, content |-> <<>>],
      [exists |-> TRUE, readable |-> TRUE, content |-> content] }

\* the progress records of the other listed features
OtherFeatures ==
    { <<>>,
      <<[totalTasks |-> 0, completedTasks |-> 0, percentage |-> 0]>>,
      <<[totalTasks |-> 2, completedTasks |-> 1, percentage |-> 50],
        [totalTasks |-> 1, completedTasks |-> 1, percentage |-> 100]>> }

(***************************************************************************)
(* Spec: /implement runs of the chat participant on one active feature     *)
(* (SpeckyChatParticipant.handleRequest -> handleImplement)                *)
(***************************************************************************)
ChangePathA == <<"a">>

ChangePathDoc == <<"b", ".", "m", "d">>

ChangePathOutside == <<".", ".", "/", "a">>

LetA == <<"l", "e", "t", " ", "a">>

\* an existing source file: longer than 1.25 times LetA, declares a and d
ExistingA ==
    Join(<< <<"b">>, <<"l", "e", "t", " ", "a", "=", "1">>, <<"c">>,
            <<"v", "a", "r", " ", "d">>, <<"e">> >>, "\n")

\* a heading naming a back-ticked path, directly followed by a fenced block
Block(path, content) ==
    <<"#", "#", "#", "#", " ", Backtick>> \o path \o <<Backtick, "\n">>
        \o Fence \o <<"t", "s", "\n">> \o content \o <<"\n">> \o Fence

Prose == <<"n", "\n">>

\* the texts the oracle may stream
Responses ==
    { Prose,
      Block(ChangePathA, LetA),
      Prose \o Block(ChangePathOutside, LetA) \o <<"\n">> \o Block(ChangePathDoc, <<"z">>),
      Block(ChangePathA, LetA) \o <<"\n">> \o Block(ChangePathOutside, <<"z">>)
          \o <<"\n">> \o Block(ChangePathDoc, <<"z">>),
      Block(ChangePathA, LetA) \o <<"\n">> \o Block(ChangePathA, <<"z">>),
      Block(ChangePathOutside, <<"z">>) }

Locations ==
    { SafeResolveWorkspaceFile(workspaceRoot, p) : p \in {ChangePathA, ChangePathDoc} }

Workspaces ==
    { [uri \in Locations |-> NoFile],
      [uri \in Locations |->
          IF uri = SafeResolveWorkspaceFile(workspaceRoot, ChangePathA)
          THEN File(ExistingA) ELSE File(<<"y">>)] }

CompleteSpec ==
    [exists |-> TRUE, readable |-> TRUE, empty |-> FALSE,
     sections |-> RequiredSections, markers |-> {}]

CompletePlan == [exists |-> TRUE, readable |-> TRUE, length |-> MinPlanLength]

TasksFile(content) == [exists |-> TRUE, readable |-> TRUE, content |-> content]

ImplementTasks ==
    { NoTasks,
      TasksFile(TaskLine(0, " ", <<"a">>)),
      TasksFile(TaskLine(0, "x", <<"a">>)),
      TasksFile(Join(<<TaskLine(0, "x", <<"a">>), TaskLine(2, " ", <<"b">>)>>, "\n")) }

\* the prompt of the request, as the selectors parseImplementFlags looks for:
\* task is the n of "--task n", leading the n of a leading "n" or "#n"
\* (0: absent or not positive)
Prompts == [review : BOOLEAN, dryRun : BOOLEAN, task : {0, 1, 2}, leading : {0, 1, 2}]

\* ModelSelector.parseImplementFlags; taskNumber 0 stands for null
ParseImplementFlags(prompt) ==
    [review |-> prompt.review, dryRun |-> prompt.dryRun,
     taskNumber |-> IF prompt.task > 0 THEN prompt.task ELSE prompt.leading]

NoFlags == [review |-> FALSE, dryRun |-> FALSE, taskNumber |-> 0]

NoLog ==
    [gates |-> 0, requests |-> 0, extractions |-> 0, previews |-> 0, edits |-> 0,
     unreadable |-> FALSE, commit |-> "unsubmitted", toggles |-> 0, auto |-> "unread",
     raised |-> FALSE]

NoSnapshot == [disk |-> <<>>, docs |-> <<>>, tasks |-> NoTasks]

WorkspaceIdle == disk = <<>> /\ docs = <<>>

RunIdle ==
    /\ flags = NoFlags /\ selectedTask = Null /\ cancelled = FALSE
    /\ fullResponse = <<>> /\ changeSet = <<>> /\ appliedFiles = <<>>
    /\ reports = {} /\ result = "none" /\ preStore = NoSnapshot /\ runLog = NoLog

ImplementIdle == pc = "off" /\ RunIdle /\ WorkspaceIdle

\* const gateResult = await this.qualityGate.validateForImplementation(...)
\* (the result of an earlier run is used when there is one)
GateForRun_Cached(previous, listed, spec, plan, tasks) ==
    IF previous # NoGateResult THEN previous
    ELSE ValidateForImplementation(listed, spec, plan, tasks)

GateForRun(previous, listed, spec, plan, tasks) ==
    ValidateForImplementation(listed, spec, plan, tasks)

\* (the error is swallowed where it is raised and the run goes on)
AfterGenerationError_GoOn == [pc |-> "extract", reports |-> {}, result |-> "none"]

\* an error raised by sendRequest or by response.text reaches the catch of
\* handleRequest: the message is written and the error result returned
AfterGenerationError == [pc |-> "done", reports |-> {"error"}, result |-> "error"]

\* (without the try/catch the error reaches the catch of handleRequest)
AfterToggleError_Propagated == [report |-> "error", result |-> "error"]

\* the catch around toggleTask and getNextTask: a warning is written and
\* handleImplement returns its normal result
AfterToggleError == [report |-> "could not auto-mark task complete", result |-> "implement"]

\* (a failed review ends the run)
AfterReview_FailureEnds(ok) == IF ok THEN "complete" ELSE "done"

\* runCodeReview returns normally whether the review was streamed or its
\* catch reported the failure: the auto-complete step follows
AfterReview(ok) == "complete"

\* (an empty ChangeSet is handed on like any other)
EmptyChangeSet_Never(changes) == FALSE

\* changeSet.length === 0
EmptyChangeSet(changes) == changes = <<>>

\* (the dry-run flag is not looked at)
AfterExtraction_Apply(changes, dryRun) == IF changes = <<>> THEN "done" ELSE "apply"

\* the branch taken once the changes are parsed
AfterExtraction(changes, dryRun) ==
    IF changes = <<>> THEN "done" ELSE IF dryRun THEN "preview" ELSE "apply"

(***************************************************************************)
(* SpecPath: the sanitizer applied to every short path string              *)
(***************************************************************************)
PathIdle == pathPc = "off" /\ relativePath = <<>> /\ safeUri = Null

ToggleIdle == tglPc = "off" /\ tglTaskId = 0 /\ tglBefore = <<>> /\ tglContent = <<>> /\ tglWrites = 0

NoOverall == [totalFeatures |-> 0, totalTasks |-> 0, completedTasks |-> 0, percentage |-> 0]

TasksIdle ==
    /\ prsPc = "off" /\ prsContent = <<>> /\ prsNumber = 0 /\ prsTasks = <<>>
    /\ prsFlatTasks = <<>> /\ prsProgress = NoProgress /\ prsOverall = NoOverall
    /\ prsSelected = Null

NoWorkflowLog == [requests |-> 0, written |-> {}, before |-> <<>>]

WorkflowIdle == wfPc = "off" /\ wfCommand = "none" /\ wfResult = "none" /\ wfLog = NoWorkflowLog

ArtifactsIdle ==
    featureListed = FALSE /\ specMd = NoSpec /\ planMd = NoPlan /\ tasksMd = NoTasks

GateIdle == gateResult = NoGateResult

MergeIdle ==
    /\ mrgPc = "off" /\ mrgPath = <<>> /\ mrgNew = <<>> /\ mrgExisting = <<>>
    /\ mrgMerged = <<>> /\ mrgNext = <<>>

ExtractIdle == xtrPc = "off" /\ xtrResponse = <<>> /\ xtrChanges = <<>>

ContextIdle ==
    /\ ctxPc = "off" /\ ctxTitle = <<>> /\ ctxFolders = FALSE /\ ctxFiles = <<>>
    /\ ctxPaths = <<>> /\ ctxIndex = 0 /\ ctxChunks = <<>> /\ ctxUsed = 0 /\ ctxResult = <<>>

RaceIdle ==
    /\ racePc = <<>> /\ raceTask = <<>> /\ racePending = <<>> /\ raceFile = <<>>
    /\ raceBefore = <<>>

CreateIdle ==
    /\ speckyDirs = {} /\ crtPc = <<>> /\ crtName = <<>> /\ crtNumber = <<>>
    /\ crtCalls = <<>> /\ crtCreated = {}

ExtIdle == MergeIdle /\ ExtractIdle /\ ContextIdle /\ RaceIdle /\ CreateIdle

BaseIdle ==
    /\ PathIdle /\ ToggleIdle /\ TasksIdle /\ WorkflowIdle /\ ArtifactsIdle /\ GateIdle
    /\ ImplementIdle

InitPath ==
    /\ ExtIdle
    /\ pathPc = "input"
    /\ relativePath \in SeqsUpTo(PathChars, MaxPathLen)
    /\ safeUri = Null
    /\ ToggleIdle /\ TasksIdle /\ WorkflowIdle /\ ArtifactsIdle /\ GateIdle /\ ImplementIdle

ResolvePath ==
    /\ pathPc = "input"
    /\ safeUri' = SafeResolveWorkspaceFile(workspaceRoot, relativePath)
    /\ pathPc' = "resolved"
    /\ UNCHANGED <<extVars, relativePath, tglVars, prsVars, wfVars, artifactVars, gateResult, storeVars, runVars>>

NextPath == ResolvePath

SpecPath == InitPath /\ [][NextPath]_vars

(***************************************************************************)
(* SpecToggle: toggleTask applied to every short tasks.md                  *)
(***************************************************************************)
InitToggle ==
    /\ ExtIdle
    /\ tglPc = "input"
    /\ tglContent \in TaskTexts
    /\ tglBefore = tglContent
    /\ tglTaskId \in 0..MaxLines
    /\ tglWrites = 0
    /\ PathIdle /\ TasksIdle /\ WorkflowIdle /\ ArtifactsIdle /\ GateIdle /\ ImplementIdle

ToggleTaskCall ==
    /\ tglPc = "input"
    /\ LET r == ToggleContent(tglContent, tglTaskId) IN
         /\ tglContent' = r.content
         /\ tglWrites' = IF r.write THEN tglWrites + 1 ELSE tglWrites
    /\ tglPc' = "toggled"
    /\ UNCHANGED <<extVars, tglTaskId, tglBefore, pathVars, prsVars, wfVars, artifactVars, gateResult, storeVars,
                   runVars>>

NextToggle == ToggleTaskCall

SpecToggle == InitToggle /\ [][NextToggle]_vars

(***************************************************************************)
(* SpecTasks: tasks.md is parsed and a task selected                       *)
(***************************************************************************)
InitTasks ==
    /\ ExtIdle
    /\ prsPc = "input"
    /\ prsContent \in TaskTexts
    /\ prsNumber = 0
    /\ prsTasks = <<>> /\ prsFlatTasks = <<>>
    /\ prsProgress = NoProgress /\ prsOverall = NoOverall
    /\ prsSelected = Null
    /\ featureListed = TRUE /\ specMd = NoSpec /\ planMd = NoPlan
    /\ tasksMd \in TasksArtifacts(prsContent)
    /\ PathIdle /\ ToggleIdle /\ WorkflowIdle /\ GateIdle /\ ImplementIdle

\* parseTasks: the text is parsed
ParseTasks ==
    /\ prsPc = "input"
    /\ prsTasks' = ParseTasksFromContent(prsContent)
    /\ prsFlatTasks' = ParseTasksFlat(prsContent)
    /\ prsPc' = "parsed"
    /\ UNCHANGED <<extVars, prsContent, prsNumber, prsProgress, prsOverall, prsSelected, pathVars,
                   tglVars, artifactVars, gateResult, storeVars, runVars, wfVars>>

\* getSelectedTask with a task number (0: none given)
GetSelectedTaskCall ==
    /\ prsPc = "parsed"
    /\ \E n \in 0..(MaxLines + 1) :
          /\ prsNumber' = n
          /\ prsSelected' = GetSelectedTask(featureListed, tasksMd, n)
    /\ prsPc' = "selected"
    /\ UNCHANGED <<extVars, prsContent, prsTasks, prsFlatTasks, prsProgress, prsOverall,
                   pathVars, tglVars, artifactVars, gateResult, storeVars, runVars, wfVars>>

NextTasks == ParseTasks \/ GetSelectedTaskCall

SpecTasks == InitTasks /\ [][NextTasks]_vars

(***************************************************************************)
(* SpecProgress: the progress of a feature and of all features is computed *)
(***************************************************************************)
InitProgress ==
    /\ ExtIdle
    /\ prsPc = "input"
    /\ prsContent \in ProgressTexts
    /\ prsNumber = 0
    /\ prsTasks = <<>> /\ prsFlatTasks = <<>>
    /\ prsProgress = NoProgress /\ prsOverall = NoOverall
    /\ prsSelected = Null
    /\ featureListed = TRUE /\ specMd = NoSpec /\ planMd = NoPlan
    /\ tasksMd \in TasksArtifacts(prsContent)
    /\ PathIdle /\ ToggleIdle /\ WorkflowIdle /\ GateIdle /\ ImplementIdle

\* listFeatures computes the feature's progress from its tasks.md; prsTasks
\* is the tree that parseTasks returned
CalculateProgressCall ==
    /\ prsPc = "input"
    /\ prsTasks' = GetTasks(featureListed, tasksMd)
    /\ prsProgress' = CalculateProgress(tasksMd)
    /\ prsPc' = "counted"
    /\ UNCHANGED <<extVars, prsContent, prsNumber, prsFlatTasks, prsOverall, prsSelected,
                   pathVars, tglVars, artifactVars, gateResult, storeVars, runVars, wfVars>>

\* getOverallProgress over this feature and the other listed ones
GetOverallProgressCall ==
    /\ prsPc = "counted"
    /\ \E others \in OtherFeatures : prsOverall' = GetOverallProgress(<<prsProgress>> \o others)
    /\ prsPc' = "summed"
    /\ UNCHANGED <<extVars, prsContent, prsNumber, prsTasks, prsFlatTasks, prsProgress, prsSelected,
                   pathVars, tglVars, artifactVars, gateResult, storeVars, runVars, wfVars>>

NextProgress == CalculateProgressCall \/ GetOverallProgressCall

SpecProgress == InitProgress /\ [][NextProgress]_vars

(***************************************************************************)
(* SpecGate: the quality gate applied to every combination of artifacts    *)
(***************************************************************************)
SpecFiles ==
    {NoSpec}
    \cup {[exists |-> TRUE, readable |-> FALSE, empty |-> TRUE, sections |-> {}, markers |-> {}],
          [exists |-> TRUE, readable |-> TRUE, empty |-> TRUE, sections |-> {}, markers |-> {}]}
    \cup [exists : {TRUE}, readable : {TRUE}, empty : {FALSE},
          sections : SUBSET RequiredSections, markers : SUBSET OpenMarkers]

PlanFiles ==
    {NoPlan, [exists |-> TRUE, readable |-> FALSE, length |-> 0]}
    \cup [exists : {TRUE}, readable : {TRUE}, length : {0, MinPlanLength - 1, MinPlanLength}]

GateTaskTexts ==
    { <<>>,
      <<"n">>,
      TaskLine(0, " ", <<"a">>),
      Join(<<TaskLine(0, "x", <<"a">>), TaskLine(2, " ", <<"b">>)>>, "\n") }

TasksFiles ==
    {NoTasks, [exists |-> TRUE, readable |-> FALSE, content |-> <<>>]}
    \cup [exists : {TRUE}, readable : {TRUE}, content : GateTaskTexts]

InitGate ==
    /\ ExtIdle
    /\ featureListed \in BOOLEAN
    /\ specMd \in SpecFiles
    /\ planMd \in PlanFiles
    /\ tasksMd \in TasksFiles
    /\ gateResult = NoGateResult
    /\ PathIdle /\ ToggleIdle /\ TasksIdle /\ WorkflowIdle /\ ImplementIdle

Validate ==
    /\ gateResult = NoGateResult
    /\ gateResult' = ValidateForImplementation(featureListed, specMd, planMd, tasksMd)
    /\ UNCHANGED <<extVars, artifactVars, pathVars, tglVars, prsVars, wfVars, storeVars, runVars>>

NextGate == Validate

SpecGate == InitGate /\ [][NextGate]_vars

(***************************************************************************)
(* SpecWorkflow: /plan and /tasks runs of the chat participant on the      *)
(* active feature (handleRequest -> handlePlan | handleTasks)              *)
(***************************************************************************)
WorkflowSpecs ==
    { NoSpec,
      [exists |-> TRUE, readable |-> FALSE, empty |-> TRUE, sections |-> {}, markers |-> {}],
      [exists |-> TRUE, readable |-> TRUE, empty |-> TRUE, sections |-> {}, markers |-> {}],
      CompleteSpec }

WorkflowPlans ==
    { NoPlan,
      [exists |-> TRUE, readable |-> FALSE, length |-> 0],
      [exists |-> TRUE, readable |-> TRUE, length |-> 0],
      CompletePlan }

\* the lengths of the plan texts the model streams
GeneratedPlanLengths == {0, MinPlanLength}

InitWorkflow ==
    /\ ExtIdle
    /\ wfPc = "idle" /\ wfCommand = "none" /\ wfResult = "none" /\ wfLog = NoWorkflowLog
    /\ featureListed \in BOOLEAN
    /\ specMd \in WorkflowSpecs
    /\ planMd \in WorkflowPlans
    /\ tasksMd = NoTasks
    /\ PathIdle /\ ToggleIdle /\ TasksIdle /\ GateIdle /\ ImplementIdle

\* the start of a run up to sendRequest: without an active feature
\* handleRequest returns the error result; missing: the handler's test of
\* the artifacts it read; sendRequest opens the stream or raises an error
StartCommand(command, missing) ==
    /\ wfPc = "idle"
    /\ wfCommand' = command
    /\ \E ok \in BOOLEAN :
         IF ~featureListed
         THEN /\ wfPc' = "done" /\ wfResult' = "error"
              /\ wfLog' = [wfLog EXCEPT !.before = <<specMd, planMd, tasksMd>>]
         ELSE IF missing
         THEN /\ wfPc' = "done" /\ wfResult' = command
              /\ wfLog' = [wfLog EXCEPT !.before = <<specMd, planMd, tasksMd>>]
         ELSE /\ wfPc' = IF ok THEN "streaming" ELSE "done"
              /\ wfResult' = IF ok THEN "none" ELSE "error"
              /\ wfLog' = [wfLog EXCEPT !.before = <<specMd, planMd, tasksMd>>,
                                        !.requests = @ + 1]
    /\ UNCHANGED <<extVars, artifactVars, pathVars, tglVars, prsVars, gateResult, storeVars, runVars>>

HandlePlan == StartCommand("plan", MissingForPlan(specMd))

HandleTasks == StartCommand("tasks", MissingForTasks(specMd, planMd))

\* the stream is read to its end and writeArtifact stores the text, or throws
WriteGenerated ==
    /\ wfPc = "streaming"
    /\ \E stored \in BOOLEAN :
         IF ~stored
         THEN wfResult' = "error" /\ UNCHANGED <<wfLog, artifactVars>>
         ELSE /\ wfResult' = wfCommand
              /\ wfLog' = [wfLog EXCEPT !.written = @ \cup {wfCommand}]
              /\ IF wfCommand = "plan"
                 THEN /\ \E length \in GeneratedPlanLengths :
                           planMd' = [exists |-> TRUE, readable |-> TRUE, length |-> length]
                      /\ UNCHANGED <<featureListed, specMd, tasksMd>>
                 ELSE /\ \E content \in GateTaskTexts : tasksMd' = TasksFile(content)
                      /\ UNCHANGED <<featureListed, specMd, planMd>>
    /\ wfPc' = "done"
    /\ UNCHANGED <<extVars, wfCommand, pathVars, tglVars, prsVars, gateResult, storeVars, runVars>>

\* the stream raises an error, caught by handleRequest
GenerationThrows ==
    /\ wfPc = "streaming"
    /\ wfPc' = "done" /\ wfResult' = "error"
    /\ UNCHANGED <<extVars, wfCommand, wfLog, artifactVars, pathVars, tglVars, prsVars, gateResult,
                   storeVars, runVars>>

\* the chat result is returned; the participant waits for the next request
ReturnResult ==
    /\ wfPc = "done"
    /\ wfPc' = "idle" /\ wfCommand' = "none" /\ wfResult' = "none" /\ wfLog' = NoWorkflowLog
    /\ UNCHANGED <<extVars, artifactVars, pathVars, tglVars, prsVars, gateResult, storeVars, runVars>>

NextWorkflow == HandlePlan \/ HandleTasks \/ WriteGenerated \/ GenerationThrows \/ ReturnResult

SpecWorkflow == InitWorkflow /\ [][NextWorkflow]_vars

(***************************************************************************)
(* Spec: the steps of an /implement run                                    *)
(***************************************************************************)
Init ==
    /\ ExtIdle
    /\ PathIdle /\ ToggleIdle /\ TasksIdle /\ WorkflowIdle
    /\ featureListed \in BOOLEAN
    /\ specMd \in {NoSpec, CompleteSpec}
    /\ planMd \in {NoPlan, CompletePlan}
    /\ tasksMd \in ImplementTasks
    /\ gateResult = NoGateResult
    /\ disk \in Workspaces
    /\ docs = [uri \in Locations |-> Clean]
    /\ pc = "idle"
    /\ RunIdle

Ended(tag, res) ==
    /\ pc' = "done"
    /\ reports' = reports \cup {tag}
    /\ result' = res

\* handleRequest dispatches to handleImplement: flags are parsed
StartImplement ==
    /\ pc = "idle"
    /\ \E prompt \in Prompts : flags' = ParseImplementFlags(prompt)
    /\ preStore' = [disk |-> disk, docs |-> docs, tasks |-> tasksMd]
    /\ pc' = "gate"
    /\ UNCHANGED <<extVars, selectedTask, cancelled, fullResponse, changeSet, appliedFiles, reports,
                   result, runLog, storeVars, artifactVars, gateResult, pathVars, tglVars, prsVars, wfVars>>

\* validateForImplementation; a failing gate ends the run
RunQualityGate ==
    /\ pc = "gate"
    /\ LET r == GateForRun(gateResult, featureListed, specMd, planMd, tasksMd) IN
         /\ gateResult' = r
         /\ IF r.passed
            THEN pc' = "select" /\ UNCHANGED <<reports, result>>
            ELSE Ended("cannot proceed", "implement")
    /\ runLog' = [runLog EXCEPT !.gates = @ + 1]
    /\ UNCHANGED <<extVars, flags, selectedTask, cancelled, fullResponse, changeSet, appliedFiles,
                   preStore, storeVars, artifactVars, pathVars, tglVars, prsVars, wfVars>>

\* getSelectedTask; no task ends the run
SelectTask ==
    /\ pc = "select"
    /\ LET task == GetSelectedTask(featureListed, tasksMd, flags.taskNumber) IN
         /\ selectedTask' = task
         /\ IF task = Null
            THEN Ended("all tasks complete", "implement")
            ELSE pc' = "request" /\ UNCHANGED <<reports, result>>
    /\ UNCHANGED <<extVars, flags, cancelled, fullResponse, changeSet, appliedFiles, preStore, runLog,
                   storeVars, artifactVars, gateResult, pathVars, tglVars, prsVars, wfVars>>

\* selectModel and chatModel.sendRequest: the stream opens, or an error is
\* raised and caught by handleRequest
SendRequest ==
    /\ pc = "request"
    /\ \E ok \in BOOLEAN :
         IF ok
         THEN /\ pc' = "streaming"
              /\ runLog' = [runLog EXCEPT !.requests = @ + 1]
              /\ UNCHANGED <<reports, result>>
         ELSE /\ pc' = AfterGenerationError.pc
              /\ reports' = reports \cup AfterGenerationError.reports
              /\ result' = AfterGenerationError.result
              /\ runLog' = [runLog EXCEPT !.requests = @ + 1, !.raised = TRUE]
    /\ UNCHANGED <<extVars, flags, selectedTask, cancelled, fullResponse, changeSet, appliedFiles,
                   preStore, storeVars, artifactVars, gateResult, pathVars, tglVars, prsVars, wfVars>>

\* the cancellation token of the request fires while chunks are awaited
Cancel ==
    /\ pc = "streaming"
    /\ ~cancelled
    /\ cancelled' = TRUE
    /\ UNCHANGED <<extVars, pc, flags, selectedTask, fullResponse, changeSet, appliedFiles, reports,
                   result, preStore, runLog, storeVars, artifactVars, gateResult, pathVars,
                   tglVars, prsVars, wfVars>>

\* for await (const chunk of response.text) runs to the end of the stream
StreamEnds ==
    /\ pc = "streaming"
    /\ fullResponse' \in Responses
    /\ pc' = "extract"
    /\ UNCHANGED <<extVars, flags, selectedTask, cancelled, changeSet, appliedFiles, reports, result,
                   preStore, runLog, storeVars, artifactVars, gateResult, pathVars, tglVars, prsVars, wfVars>>

\* the stream raises an error, caught by handleRequest
StreamThrows ==
    /\ pc = "streaming"
    /\ pc' = AfterGenerationError.pc
    /\ reports' = reports \cup AfterGenerationError.reports
    /\ result' = AfterGenerationError.result
    /\ runLog' = [runLog EXCEPT !.raised = TRUE]
    /\ UNCHANGED <<extVars, flags, selectedTask, cancelled, fullResponse, changeSet, appliedFiles,
                   preStore, storeVars, artifactVars, gateResult, pathVars, tglVars, prsVars, wfVars>>

\* parseCodeChanges and the branch on its result
ExtractChanges ==
    /\ pc = "extract"
    /\ LET changes == ParseCodeChanges(fullResponse) IN
         /\ changeSet' = changes
         /\ IF EmptyChangeSet(changes)
            THEN Ended("no code blocks found", "implement")
            ELSE pc' = AfterExtraction(changes, flags.dryRun) /\ UNCHANGED <<reports, result>>
    /\ runLog' = [runLog EXCEPT !.extractions = @ + 1]
    /\ UNCHANGED <<extVars, flags, selectedTask, cancelled, fullResponse, appliedFiles, preStore,
                   storeVars, artifactVars, gateResult, pathVars, tglVars, prsVars, wfVars>>

\* the dry-run branch: previewCodeChanges, then the run ends
PreviewCodeChanges ==
    /\ pc = "preview"
    /\ runLog' = [runLog EXCEPT !.previews = PreviewCount(changeSet)]
    /\ Ended("dry-run preview", "implement")
    /\ UNCHANGED <<extVars, flags, selectedTask, cancelled, fullResponse, changeSet, appliedFiles,
                   preStore, storeVars, artifactVars, gateResult, pathVars, tglVars, prsVars, wfVars>>

\* the locations of the change set whose file exists (stat succeeds)
ExistingTargets(changes, dsk) ==
    { uri \in DOMAIN dsk :
        /\ dsk[uri].exists
        /\ \E k \in 1..Len(changes) :
              SafeResolveWorkspaceFile(workspaceRoot, changes[k].path) = uri }

\* the end of applyCodeChanges, with the WorkspaceEdit ops built by its loop,
\* and the report of its result: applyEdit reports commits, doc.save() fails
\* on the locations of saveFails; skipped: some openTextDocument failed
SubmitEdit(ops, commits, skipped) ==
    LET applied == commits /\ Committable(ops)
        list == IF ops = <<>> THEN <<>> ELSE AppliedList(ops, applied)
    IN  /\ ops = <<>> => commits
        /\ \E saveFails \in SUBSET Targets(ops) :
             /\ ~applied => saveFails = {}
             /\ IF ops # <<>> /\ applied
                THEN /\ disk' = DiskAfterApply(disk, ops, saveFails)
                     /\ docs' = DocsAfterApply(docs, ops, saveFails)
                ELSE UNCHANGED storeVars
        /\ appliedFiles' = list
        /\ runLog' = [runLog EXCEPT
               !.edits = IF ops = <<>> THEN 0 ELSE 1,
               !.unreadable = skipped,
               !.commit = IF ops = <<>> THEN "empty"
                          ELSE IF applied THEN "committed" ELSE "failed"]
        /\ IF list = <<>>
           THEN Ended("no files were modified", "implement")
           ELSE /\ pc' = IF flags.review THEN "review" ELSE "complete"
                /\ reports' = reports \cup {"applied changes"}
                /\ UNCHANGED result

\* applyCodeChanges; openTextDocument fails on the locations of unreadable
ApplyCodeChanges ==
    /\ pc = "apply"
    /\ \E unreadable \in SUBSET ExistingTargets(changeSet, disk), commits \in BOOLEAN :
         SubmitEdit(BuildEdit(changeSet, disk, docs, unreadable), commits, unreadable # {})
    /\ UNCHANGED <<extVars, flags, selectedTask, cancelled, fullResponse, changeSet, preStore,
                   artifactVars, gateResult, pathVars, tglVars, prsVars, wfVars>>

\* runCodeReview: the review is streamed, or fails and is reported
RunCodeReview ==
    /\ pc = "review"
    /\ \E ok \in BOOLEAN :
         /\ reports' = reports \cup {IF ok THEN "code review" ELSE "code review failed"}
         /\ pc' = AfterReview(ok)
    /\ UNCHANGED <<extVars, flags, selectedTask, cancelled, fullResponse, changeSet, appliedFiles,
                   result, preStore, runLog, storeVars, artifactVars, gateResult, pathVars,
                   tglVars, prsVars, wfVars>>

\* the auto-complete step: shouldAutoCompleteTask, progressTracker.toggleTask
\* (writeArtifact succeeds or throws), getNextTask
AutoComplete ==
    /\ pc = "complete"
    /\ \E auto \in BOOLEAN, written \in BOOLEAN :
         LET r == ToggleContent(IF tasksMd.exists /\ tasksMd.readable
                                THEN tasksMd.content ELSE <<>>, selectedTask[1].id)
             after == [tasksMd EXCEPT !.content = r.content]
         IN  /\ (~auto \/ ~r.write) => written
             /\ IF ~auto
                THEN /\ Ended("mark the task complete manually", "implement")
                     /\ runLog' = [runLog EXCEPT !.auto = "off"]
                     /\ UNCHANGED tasksMd
                ELSE IF r.write /\ ~written
                THEN /\ Ended(AfterToggleError.report, AfterToggleError.result)
                     /\ runLog' = [runLog EXCEPT !.auto = "on"]
                     /\ UNCHANGED tasksMd
                ELSE /\ tasksMd' = after
                     /\ runLog' = [runLog EXCEPT !.auto = "on",
                                                 !.toggles = IF r.write THEN 1 ELSE 0]
                     /\ pc' = "done"
                     /\ result' = "implement"
                     /\ reports' = reports \cup
                            { "task marked complete",
                              IF FindFirstIncomplete(GetTasks(featureListed, after)) = Null
                              THEN "all tasks are now complete" ELSE "next task" }
    /\ UNCHANGED <<extVars, flags, selectedTask, cancelled, fullResponse, changeSet, appliedFiles,
                   preStore, storeVars, featureListed, specMd, planMd, gateResult, pathVars,
                   tglVars, prsVars, wfVars>>

\* the chat result is returned; the participant waits for the next request
Finish ==
    /\ pc = "done"
    /\ pc' = "idle"
    /\ flags' = NoFlags /\ selectedTask' = Null /\ cancelled' = FALSE
    /\ fullResponse' = <<>> /\ changeSet' = <<>> /\ appliedFiles' = <<>>
    /\ reports' = {} /\ result' = "none" /\ preStore' = NoSnapshot /\ runLog' = NoLog
    /\ UNCHANGED <<extVars, storeVars, artifactVars, gateResult, pathVars, tglVars, prsVars, wfVars>>

\* between two runs the user deletes or restores plan.md
ExternalEdit ==
    /\ pc = "idle"
    /\ planMd' \in {NoPlan, CompletePlan} \ {planMd}
    /\ UNCHANGED <<extVars, runVars, storeVars, featureListed, specMd, tasksMd, gateResult, pathVars,
                   tglVars, prsVars, wfVars>>

Next ==
    \/ StartImplement \/ RunQualityGate \/ SelectTask \/ SendRequest \/ Cancel
    \/ StreamEnds \/ StreamThrows \/ ExtractChanges \/ PreviewCodeChanges
    \/ ApplyCodeChanges \/ RunCodeReview \/ AutoComplete \/ Finish \/ ExternalEdit

Spec == Init /\ [][Next]_vars

HasDotDotSegment(p) ==
    LET t == Trim(p) IN
        \E i \in 1..(Len(t) - 1) :
            /\ t[i] = "." /\ t[i + 1] = "."
            /\ (i = 1 \/ t[i - 1] \in {"/", "\\"})
            /\ (i + 1 = Len(t) \/ t[i + 2] \in {"/", "\\"})

\* C5 as stated: every path that contains "..", or starts with "/" or "~",
\* or has a drive-letter prefix, is rejected (null).
C5_AsStated ==
    (pathPc = "resolved" /\ ( \/ Includes(relativePath, <<".", ".">>)
                              \/ StartsWith(relativePath, <<"/">>)
                              \/ StartsWith(relativePath, <<"~">>)
                              \/ HasDrivePrefix(relativePath) ))
        => safeUri = Null

\* C5 amended: every path one of whose segments is "..", or that starts
\* with "/" or "~", or has a drive-letter prefix, is rejected (null).
C5_RejectsTraversal ==
    (pathPc = "resolved" /\ ( \/ HasDotDotSegment(relativePath)
                              \/ StartsWith(relativePath, <<"/">>)
                              \/ StartsWith(relativePath, <<"~">>)
                              \/ HasDrivePrefix(relativePath) ))
        => safeUri = Null

C5_Witness ==
    /\ pathPc = "resolved"
    /\ relativePath \in {<<"a", "/", ".", ".">>, <<"~", "/", "a">>, <<"a", ":", "/", "a">>}
    /\ safeUri = Null

\* C6: a location returned by the sanitizer is the workspace root followed
\* by one or more segments, the segments of the normalized path, none of
\* them empty, "." or "..": it lies strictly inside the root.
C6_ResolvedInsideRoot ==
    (pathPc = "resolved" /\ safeUri # Null) =>
        LET r == Len(workspaceRoot) IN
            /\ Len(safeUri) > r
            /\ SubSeq(safeUri, 1, r) = workspaceRoot
            /\ \A i \in (r + 1)..Len(safeUri) :
                  safeUri[i] \notin {<<>>, <<".">>, <<".", ".">>}
            /\ SubSeq(safeUri, r + 1, Len(safeUri))
                  = Split(Trim(ReplaceBackslashes(relativePath)), "/")

C6_Witness ==
    /\ pathPc = "resolved"
    /\ relativePath = <<"a", "\\", "a", ".">>
    /\ safeUri = workspaceRoot \o << <<"a">>, <<"a", ".">> >>

(***************************************************************************)
(* Properties of toggleTask (SpecToggle)                                   *)
(***************************************************************************)
\* the line with the character after its indentation's "- [" exchanged
FlipMarker(line) ==
    LET m == LeadingSpaces(line) + 4 IN
        [k \in 1..Len(line) |->
            IF k # m THEN line[k] ELSE IF line[k] = " " THEN "x" ELSE " "]

\* C10: toggleTask changes exactly the task's source line, and on it only
\* the checkbox marker; the other lines and the number of lines are kept,
\* and an id that is not in the text leaves the text unchanged.
C10_ToggleTouchesOnlyMarker ==
    tglPc = "toggled" =>
        LET before == Split(tglBefore, "\n")
            after == Split(tglContent, "\n")
            nodes == ParseTasksFromContent(tglBefore)
            hit == {n \in 1..Len(nodes) : nodes[n].id = tglTaskId}
        IN  IF hit = {} THEN tglContent = tglBefore /\ tglWrites = 0
            ELSE \A n \in hit :
                   /\ Len(after) = Len(before)
                   /\ \A k \in 1..Len(before) :
                         after[k] = IF k = nodes[n].lineNumber
                                    THEN FlipMarker(before[k]) ELSE before[k]
                   /\ MatchesCheckbox(after[nodes[n].lineNumber])
                   /\ MarkerCompleted(after[nodes[n].lineNumber]) = ~nodes[n].completed

C10_Witness ==
    /\ tglPc = "toggled"
    /\ tglBefore = Join(<<TaskLine(0, "x", <<"a">>), TaskLine(1, "x", <<"[", "X", "]">>)>>, "\n")
    /\ tglTaskId = 1
    /\ tglContent = Join(<<TaskLine(0, "x", <<"a">>), TaskLine(1, " ", <<"[", "X", "]">>)>>, "\n")

\* C11: parsing the text written by toggleTask gives the same tasks as
\* parsing the text before it (ids, titles, line numbers, parents), with the
\* same completed flag for every task but the toggled one, whose flag is
\* negated.
C11_ToggleRoundTrip ==
    tglPc = "toggled" =>
        LET before == ParseTasksFromContent(tglBefore)
            after == ParseTasksFromContent(tglContent)
        IN  (\E n \in 1..Len(before) : before[n].id = tglTaskId) =>
               /\ Len(after) = Len(before)
               /\ \A n \in 1..Len(before) :
                     /\ after[n].id = before[n].id
                     /\ after[n].title = before[n].title
                     /\ after[n].lineNumber = before[n].lineNumber
                     /\ after[n].parent = before[n].parent
                     /\ after[n].completed = IF before[n].id = tglTaskId
                                             THEN ~before[n].completed
                                             ELSE before[n].completed

\* the upper-case completed child of a completed parent is toggled
C11_Witness ==
    /\ tglPc = "toggled"
    /\ tglBefore = Join(<<TaskLine(0, "x", <<"a">>), TaskLine(2, "X", <<"b">>)>>, "\n")
    /\ tglTaskId = 1
    /\ LET after == ParseTasksFromContent(tglContent) IN
           /\ Len(after) = 2
           /\ after[1].completed /\ ~after[2].completed
           /\ after[2].parent = 1

(***************************************************************************)
(* Properties of the tasks.md readers (SpecTasks)                          *)
(***************************************************************************)
\* the numbers of the lines of the text that are checkbox lines, in order
TaskLineNumbers(content) ==
    LET lines == Split(content, "\n") IN
        SelectSeq([k \in 1..Len(lines) |-> k], LAMBDA k : MatchesCheckbox(lines[k]))

\* a well-formed task list: indentation in steps of two spaces, the first
\* task at level 0, and from one task to the next the level goes up by at
\* most one and down by at most one
WellFormed(content) ==
    LET lines == Split(content, "\n")
        at == TaskLineNumbers(content)
    IN  /\ \A k \in 1..Len(at) :
              /\ LeadingSpaces(lines[at[k]]) % 2 = 0
              /\ \A c \in 1..LeadingSpaces(lines[at[k]]) : lines[at[k]][c] = " "
        /\ at # <<>> => IndentLevel(lines[at[1]]) = 0
        /\ \A k \in 1..(Len(at) - 1) :
              /\ IndentLevel(lines[at[k + 1]]) <= IndentLevel(lines[at[k]]) + 1
              /\ IndentLevel(lines[at[k + 1]]) >= IndentLevel(lines[at[k]]) - 1

\* every child of the tree is one level deeper than its parent
ChildrenOneDeeper(content, nodes) ==
    LET lines == Split(content, "\n") IN
        \A n \in 1..Len(nodes) :
            nodes[n].parent # 0 =>
                IndentLevel(lines[nodes[n].lineNumber])
                    = IndentLevel(lines[nodes[nodes[n].parent].lineNumber]) + 1

\* C12 as stated: for every well-formed text, every child built by
\* parseTasksFromContent (either of the two parsers of the sources) has the
\* depth of its parent plus one.
C12_AsStated ==
    (prsPc # "input" /\ prsPc # "off" /\ WellFormed(prsContent)) =>
        /\ ChildrenOneDeeper(prsContent, prsTasks)
        /\ ChildrenOneDeeper(prsContent, prsFlatTasks)

\* the part of C12 that holds: the parser with the indentation stack
C12_StackParserDepths ==
    (prsPc # "input" /\ prsPc # "off" /\ WellFormed(prsContent)) =>
        ChildrenOneDeeper(prsContent, prsTasks)

\* the ancestors of node k of a tree, k itself included
RECURSIVE Ancestors(_, _)
Ancestors(nodes, k) == IF k = 0 THEN {} ELSE {k} \cup Ancestors(nodes, nodes[k].parent)

\* node a comes before node b in the pre-order of the tree: a is an ancestor
\* of b, or the two lie in different subtrees of a common parent (or are
\* different roots) and a's subtree was pushed first
PreOrderBefore(nodes, a, b) ==
    /\ a # b
    /\ \/ a \in Ancestors(nodes, b)
       \/ /\ b \notin Ancestors(nodes, a)
          /\ \E ca \in Ancestors(nodes, a), cb \in Ancestors(nodes, b) :
                /\ ca \notin Ancestors(nodes, b) /\ cb \notin Ancestors(nodes, a)
                /\ nodes[ca].parent = nodes[cb].parent
                /\ ca < cb

\* the tasks with exactly n - 1 tasks before them in pre-order
NthInPreOrder(nodes, n) ==
    {k \in 1..Len(nodes) :
        Cardinality({j \in 1..Len(nodes) : PreOrderBefore(nodes, j, k)}) = n - 1}

\* the incomplete tasks with no incomplete task before them in pre-order
FirstIncompleteInPreOrder(nodes) ==
    {k \in 1..Len(nodes) :
        /\ ~nodes[k].completed
        /\ \A j \in 1..Len(nodes) : PreOrderBefore(nodes, j, k) => nodes[j].completed}

\* C18: getSelectedTask with a task number n returns the n-th task of the
\* pre-order of the whole tree if 1 <= n <= number of tasks and no task
\* otherwise; with no task number it returns the first incomplete task of
\* that pre-order, no task if all are completed (the tree of a tasks.md that
\* is missing or unreadable is empty).
C18_SelectsNthInPreOrder ==
    prsPc = "selected" =>
        LET tree == IF tasksMd.exists /\ tasksMd.readable THEN prsTasks ELSE <<>>
            picked == IF prsNumber = 0 THEN FirstIncompleteInPreOrder(tree)
                      ELSE NthInPreOrder(tree, prsNumber)
        IN  /\ Cardinality(picked) <= 1
            /\ (prsNumber >= 1 /\ prsNumber <= Len(tree)) => picked # {}
            /\ IF picked = {} THEN prsSelected = Null
               ELSE \E k \in picked : prsSelected = <<tree[k]>>

\* task number 2 selected the subtask of the first of two top-level tasks
C18_Witness ==
    /\ prsPc = "selected" /\ prsNumber = 2
    /\ Len(prsTasks) = 3
    /\ prsTasks[2].parent = 1 /\ prsTasks[3].parent = 0
    /\ prsSelected = <<prsTasks[2]>>

(***************************************************************************)
(* Properties of the progress figures (SpecProgress)                       *)
(***************************************************************************)
\* 100 * completed / total rounded to the nearest integer, halves upwards
RoundedPercent(completed, total) ==
    IF total > 0 THEN (200 * completed + total) \div (2 * total) ELSE 0

ProgressAsStated(progress) ==
    /\ progress.completedTasks <= progress.totalTasks
    /\ progress.percentage = RoundedPercent(progress.completedTasks, progress.totalTasks)
    /\ progress.percentage \in 0..100

\* C13: for a tasks.md that was read, calculateProgress reports the number
\* of tasks at all nesting levels as totalTasks, completedTasks <= totalTasks
\* and percentage = round(100 * completedTasks / totalTasks), 0 for no tasks;
\* getOverallProgress reports the same of the sums over the features.
\* Violated: (23 / 40) * 100 is 57.49999999999999 in double arithmetic, so
\* 23 of 40 tasks give 57 where round(57.5) is 58.
C13_AsStated ==
    /\ (prsPc \in {"counted", "summed"} /\ tasksMd.readable) =>
          /\ prsProgress.totalTasks = Len(prsTasks)
          /\ prsProgress.completedTasks =
                Cardinality({k \in 1..Len(prsTasks) : prsTasks[k].completed})
          /\ ProgressAsStated(prsProgress)
    /\ prsPc = "summed" => ProgressAsStated(prsOverall)

(***************************************************************************)
(* Properties of the /implement run (Spec)                                 *)
(***************************************************************************)
LocationA == SafeResolveWorkspaceFile(workspaceRoot, ChangePathA)

LocationDoc == SafeResolveWorkspaceFile(workspaceRoot, ChangePathDoc)

\* the run has left the workspace and tasks.md as they were when it started
StoreAsBefore == disk = preStore.disk /\ docs = preStore.docs /\ tasksMd = preStore.tasks

\* C2: in every run the gate result is the one computed from the artifacts
\* as they are in this run (never the result of an earlier run), the gate is
\* evaluated once, and a run whose gate did not pass has ended without
\* selecting a task, sending a request, submitting an edit or toggling a
\* task, the workspace and tasks.md being as before the run.
C2_GateFreshAndBlocking ==
    pc \notin {"idle", "gate"} =>
        /\ runLog.gates = 1
        /\ gateResult = ValidateForImplementation(featureListed, specMd, planMd, preStore.tasks)
        /\ ~gateResult.passed =>
              /\ pc = "done" /\ result = "implement"
              /\ selectedTask = Null
              /\ runLog.requests = 0 /\ runLog.extractions = 0
              /\ runLog.edits = 0 /\ runLog.toggles = 0
              /\ StoreAsBefore

\* a run blocked by the gate (plan.md missing) after an earlier run had
\* passed the gate and created a file
C2_Witness ==
    /\ pc = "done"
    /\ ~gateResult.passed
    /\ planMd = NoPlan /\ featureListed /\ specMd.exists /\ tasksMd.exists
    /\ "cannot proceed" \in reports
    /\ disk[LocationA] = File(LetA)

\* C3: when the commit of the edit reports failure, applyCodeChanges returns
\* the empty list and the workspace is as it was before the run.
C3_FailedCommitAppliesNothing ==
    runLog.commit = "failed" =>
        /\ appliedFiles = <<>>
        /\ disk = preStore.disk /\ docs = preStore.docs
        /\ pc = "done" /\ "no files were modified" \in reports

\* a failed commit of an edit that creates one file and replaces none
C3_Witness ==
    /\ runLog.commit = "failed"
    /\ Len(changeSet) = 3
    /\ ~disk[LocationA].exists /\ ~disk[LocationDoc].exists

\* C4: a run with --dry-run leaves every file of the workspace (content and
\* existence), every document and tasks.md as they were when it started; it
\* submits no edit and toggles no task.
C4_DryRunChangesNothing ==
    (pc # "idle" /\ flags.dryRun) =>
        /\ StoreAsBefore
        /\ runLog.edits = 0 /\ runLog.toggles = 0
        /\ appliedFiles = <<>>

\* a finished dry run that previewed one change to an existing file and one
\* to a file that does not exist
C4_Witness ==
    /\ pc = "done" /\ flags.dryRun
    /\ "dry-run preview" \in reports
    /\ runLog.previews = 2
    /\ Len(changeSet) = 3
    /\ ~disk[LocationDoc].exists

\* the paths of the changes the sanitizer accepts, in the order of the changes
RECURSIVE AcceptedPaths(_)
AcceptedPaths(changes) ==
    IF changes = <<>> THEN <<>>
    ELSE (IF SafeResolveWorkspaceFile(workspaceRoot, Head(changes).path) = Null THEN <<>>
          ELSE <<Head(changes).path>>) \o AcceptedPaths(Tail(changes))

\* C7: when the commit succeeds and every existing target could be read, the
\* list returned by applyCodeChanges is the paths of the accepted changes,
\* in the order of the change set.
C7_AppliedIsAcceptedInOrder ==
    (runLog.commit = "committed" /\ ~runLog.unreadable) =>
        appliedFiles = AcceptedPaths(changeSet)

\* a rejected change between two accepted ones: both accepted ones applied
C7_Witness ==
    /\ runLog.commit = "committed" /\ ~runLog.unreadable
    /\ Len(changeSet) = 3
    /\ SafeResolveWorkspaceFile(workspaceRoot, changeSet[2].path) = Null
    /\ appliedFiles = <<ChangePathA, ChangePathDoc>>
    /\ disk[LocationDoc] = File(<<"z">>)
    /\ ~preStore.disk[LocationDoc].exists

\* C8 as stated: once the cancellation signal has fired during generation,
\* the run extracts no changes, submits no edit and toggles no task, and the
\* workspace and tasks.md keep their pre-run content.
C8_AsStated ==
    cancelled =>
        /\ runLog.extractions = 0 /\ runLog.edits = 0 /\ runLog.toggles = 0
        /\ StoreAsBefore

\* the selected task is completed in tasks.md as it is now
SelectedTaskCompleted ==
    /\ selectedTask # Null
    /\ LET found == FindTask(GetTasks(featureListed, tasksMd), selectedTask[1].id) IN
           found # <<>> /\ found[1].completed

\* C9 as stated: after a run that is no dry run, applied at least one file
\* and found auto-complete enabled (the write of tasks.md not failing), the
\* selected task is completed in tasks.md; "task marked complete" is
\* reported only then.
C9_AsStated ==
    /\ (pc = "done" /\ ~flags.dryRun /\ appliedFiles # <<>> /\ runLog.auto = "on"
            /\ "could not auto-mark task complete" \notin reports)
          => SelectedTaskCompleted
    /\ "task marked complete" \in reports => SelectedTaskCompleted

\* C14: a run whose extraction gave an empty ChangeSet ends with the report
\* "no code blocks found" and the implement result, having submitted no edit
\* and toggled no task; the report "no files were modified" is given exactly
\* by the runs in which applyCodeChanges was called and returned the empty
\* list, and never together with "no code blocks found".
C14_EmptyExtractionReported ==
    /\ (runLog.extractions = 1 /\ changeSet = <<>>) =>
          /\ pc = "done" /\ result = "implement"
          /\ "no code blocks found" \in reports
          /\ runLog.previews = 0 /\ runLog.edits = 0 /\ runLog.commit = "unsubmitted"
          /\ runLog.toggles = 0
          /\ StoreAsBefore
    /\ "no code blocks found" \in reports => (runLog.extractions = 1 /\ changeSet = <<>>)
    /\ "no files were modified" \in reports <=>
          (pc = "done" /\ runLog.commit # "unsubmitted" /\ appliedFiles = <<>>)
    /\ ~({"no code blocks found", "no files were modified"} \subseteq reports)

\* a run whose response was prose without a file block has ended
C14_Witness ==
    /\ pc = "done"
    /\ fullResponse = Prose
    /\ changeSet = <<>> /\ runLog.extractions = 1
    /\ reports = {"no code blocks found"}
    /\ ~flags.dryRun

\* the text the edit of this run computes for a location
ComputedText(uri) == EditedText(BuildEdit(changeSet, preStore.disk, preStore.docs, {}), uri)

\* C15 as stated: once applyCodeChanges has returned a non-empty list, every
\* file named in the list is on disk with the content computed for it, and
\* its document holds no unsaved text.
\* Violated: the save loop ignores a doc.save() that fails, and the list is
\* returned as it was built.
C15_AsStated ==
    (pc \in {"review", "complete", "done"} /\ appliedFiles # <<>>) =>
        \A k \in 1..Len(appliedFiles) :
            LET uri == SafeResolveWorkspaceFile(workspaceRoot, appliedFiles[k]) IN
                /\ disk[uri].exists
                /\ disk[uri].content = ComputedText(uri)
                /\ ~docs[uri].open

\* C16: a run in which sendRequest or the text stream raised an error has
\* ended with the error result and the one error report of handleRequest,
\* having extracted nothing, submitted no edit and toggled no task, with the
\* workspace and tasks.md as before the run; no other run gives that result.
C16_GenerationErrorEndsRun ==
    /\ runLog.raised =>
          /\ pc = "done" /\ result = "error" /\ reports = {"error"}
          /\ runLog.extractions = 0 /\ runLog.previews = 0 /\ runLog.edits = 0
          /\ runLog.toggles = 0
          /\ appliedFiles = <<>>
          /\ StoreAsBefore
    /\ result = "error" => runLog.raised

\* the stream of a run on a workspace with the file a raised an error
C16_Witness ==
    /\ runLog.raised /\ runLog.requests = 1
    /\ result = "error"
    /\ selectedTask # Null
    /\ disk[LocationA] = File(ExistingA)

Reviewed == "code review" \in reports \/ "code review failed" \in reports

\* C20: the review step runs only in a run with --review whose changes were
\* applied (a committed edit, a non-empty applied list, reported), and while
\* it runs the auto-complete step has not begun and tasks.md is untouched;
\* when the auto-complete step of such a run has begun, the review has ended;
\* after a review that failed, the failure is reported and the run goes on to
\* the auto-complete step, never ending without it.
C20_ReviewBetweenApplyAndComplete ==
    /\ (pc = "review" \/ Reviewed) =>
          /\ flags.review /\ ~flags.dryRun
          /\ appliedFiles # <<>> /\ runLog.commit = "committed"
          /\ "applied changes" \in reports
    /\ pc = "review" =>
          /\ ~Reviewed
          /\ runLog.auto = "unread" /\ runLog.toggles = 0
          /\ tasksMd = preStore.tasks
    /\ (flags.review /\ (pc = "complete" \/ runLog.auto # "unread")) => Reviewed
    /\ "code review failed" \in reports =>
          /\ pc \in {"complete", "done"}
          /\ pc = "done" => runLog.auto # "unread"

\* after a review that failed the task was marked complete
C20_Witness ==
    /\ pc = "done" /\ flags.review
    /\ "code review failed" \in reports
    /\ "task marked complete" \in reports
    /\ runLog.toggles = 1
    /\ SelectedTaskCompleted

(***************************************************************************)
(* Properties of the /plan and /tasks runs (SpecWorkflow)                  *)
(***************************************************************************)
\* what readArtifact gave the run for spec.md and plan.md was a non-empty text
SpecWasRead == wfLog.before[1].readable /\ ~wfLog.before[1].empty

PlanWasRead == wfLog.before[2].readable /\ wfLog.before[2].length > 0

\* C19: a /plan run sends a request or writes plan.md only if spec.md was
\* readable and non-empty, a /tasks run sends a request or writes tasks.md
\* only if spec.md and plan.md both were; a run writes no artifact but its
\* own, and the artifacts it does not write are as they were when it began.
C19_WorkflowOrderOnWrites ==
    wfPc \in {"streaming", "done"} =>
        /\ wfLog.written \subseteq {wfCommand}
        /\ (wfLog.requests > 0 \/ wfLog.written # {}) =>
              /\ featureListed
              /\ SpecWasRead
              /\ wfCommand = "tasks" => PlanWasRead
        /\ wfLog.written # {} => wfLog.requests = 1
        /\ specMd = wfLog.before[1]
        /\ "plan" \notin wfLog.written => planMd = wfLog.before[2]
        /\ "tasks" \notin wfLog.written => tasksMd = wfLog.before[3]

\* a /tasks run has written tasks.md from a plan.md that a /plan run wrote
C19_Witness ==
    /\ wfPc = "done" /\ wfCommand = "tasks" /\ wfResult = "tasks"
    /\ wfLog.written = {"tasks"}
    /\ tasksMd = TasksFile(TaskLine(0, " ", <<"a">>))
    /\ wfLog.before[3] = NoTasks
    /\ planMd \notin WorkflowPlans \/ planMd = CompletePlan


(***************************************************************************)
(* Placement of the checkbox lines in the tree (SpecTasks)                 *)
(***************************************************************************)
\* the indentation level of the line of node k
LevelOfNode(content, nodes, k) == IndentLevel(Split(content, "\n")[nodes[k].lineNumber])

\* the task held by the stack at level j when the line of node k is read:
\* the last earlier task at level j with only deeper tasks after it (a task
\* at a level cuts the stack off above that level); 0 when there is none
StackEntryBefore(content, nodes, k, j) ==
    LET held == {m \in 1..(k - 1) :
                    /\ LevelOfNode(content, nodes, m) = j
                    /\ \A q \in (m + 1)..(k - 1) : LevelOfNode(content, nodes, q) > j}
    IN  IF held = {} THEN 0 ELSE CHOOSE m \in held : TRUE

\* where the statement puts node k: under the entry at level - 1, else under
\* the nearest shallower entry, else at the root (0)
StatedParent(content, nodes, k) ==
    LET level == LevelOfNode(content, nodes, k)
        shallower == {j \in 0..(level - 1) : StackEntryBefore(content, nodes, k, j) # 0}
    IN  IF shallower = {} THEN 0
        ELSE StackEntryBefore(content, nodes, k,
                              CHOOSE j \in shallower : \A i \in shallower : i <= j)

\* C21: parseTasksFromContent places every checkbox line exactly once in
\* the tree, under the stack entry at level - 1 when there is one, otherwise
\* under the nearest shallower stack entry, otherwise as a root; the number
\* of tasks of the tree is the number of checkbox lines.
C21_EveryLinePlacedOnce ==
    (prsPc # "input" /\ prsPc # "off") =>
        LET at == TaskLineNumbers(prsContent)
            flat == FlattenTasks(prsTasks)
        IN  /\ Len(prsTasks) = Len(at)
            /\ CountTasks(prsTasks) = Len(at)
            /\ \A i \in 1..Len(at) :
                  Cardinality({k \in 1..Len(flat) : flat[k].lineNumber = at[i]}) = 1
            /\ \A k \in 1..Len(prsTasks) :
                  prsTasks[k].parent = StatedParent(prsContent, prsTasks, k)

\* an indented first task became a root and a task two levels deeper than
\* the task before it was attached to that task
C21_Witness ==
    /\ prsPc = "parsed"
    /\ Len(prsTasks) = 3
    /\ LevelOfNode(prsContent, prsTasks, 1) = 1 /\ prsTasks[1].parent = 0
    /\ LevelOfNode(prsContent, prsTasks, 2) = 0 /\ prsTasks[2].parent = 0
    /\ LevelOfNode(prsContent, prsTasks, 3) = 2 /\ prsTasks[3].parent = 2


(***************************************************************************)
(* SpecMerge: applyCodeChanges chooses the new content of one existing     *)
(* file; mergeCodeChanges is applied to the same pair of texts             *)
(***************************************************************************)
MaxExistingLines == 3

\* lines of a proposed content: plain code, a declaration of x, a block
\* comment opener, the text "import " outside an import statement, and an
\* import statement without that text
NewLineChoices ==
    { <<"x">>,
      <<"c", "o", "n", "s", "t", " ", "x">>,
      <<"/", "*">>,
      <<"a", " ", "i", "m", "p", "o", "r", "t", " ", "b">>,
      <<"i", "m", "p", "o", "r", "t", "{", "x", "}">> }

\* lines of an existing file: declarations of x, of b and of xb, plain code,
\* and a keyword whose name follows on the next line
ExistingLineChoices ==
    { <<"c", "o", "n", "s", "t", " ", "x">>,
      <<"l", "e", "t", " ", "b">>,
      <<" ", " ", "t", "y", "p", "e", " ", "x", "b">>,
      <<"x">>,
      <<"l", "e", "t">> }

\* proposed contents: one of the lines, or one of them followed by another
NewContents ==
    NewLineChoices \cup {Join(<<first, second>>, "\n") : first, second \in NewLineChoices}

ExistingContents ==
    {Join(ls, "\n") : ls \in (SeqsUpTo(ExistingLineChoices, MaxExistingLines) \ {<<>>})}

ChangePaths ==
    { <<"a", ".", "t", "s">>, <<"a", ".", "m", "d">>, <<"a", ".", "j", "s", "o", "n">>,
      <<"a", ".", "y", "a", "m", "l">>, <<"a", ".", "y", "m", "l">>, <<"a", "m", "d">> }

InitMerge ==
    /\ mrgPc = "input"
    /\ mrgPath = <<>>
    /\ mrgNew \in NewContents
    /\ mrgExisting \in ExistingContents
    /\ mrgMerged = <<>> /\ mrgNext = <<>>
    /\ BaseIdle /\ ExtractIdle /\ ContextIdle /\ RaceIdle /\ CreateIdle

\* this.mergeCodeChanges(existingContent, change.content)
MergeCodeChangesCall ==
    /\ mrgPc = "input"
    /\ mrgMerged' = MergeCodeChanges(mrgExisting, mrgNew)
    /\ mrgPc' = "merged"
    /\ UNCHANGED <<mrgPath, mrgNew, mrgExisting, mrgNext, baseVars, xtrVars, ctxVars, raceVars, crtVars>>

\* const nextContent = shouldReplace ? change.content : this.mergeCodeChanges(...)
ChooseNextContent ==
    /\ mrgPc = "merged"
    /\ \E path \in ChangePaths :
          /\ mrgPath' = path
          /\ mrgNext' = NextContent(path, mrgNew, mrgExisting)
    /\ mrgPc' = "chosen"
    /\ UNCHANGED <<mrgNew, mrgExisting, mrgMerged, baseVars, xtrVars, ctxVars, raceVars, crtVars>>

NextMerge == MergeCodeChangesCall \/ ChooseNextContent

SpecMerge == InitMerge /\ [][NextMerge]_vars


(***************************************************************************)
(* Properties of the content choice and of the merge (SpecMerge)           *)
(***************************************************************************)
\* the text holds an import statement: a line whose first word is import
HasImportStatement(text) ==
    \E i \in LineStarts(text) :
        LET a == SkipSpaces(text, i) IN
            /\ Slice(text, a, a + 5) = <<"i", "m", "p", "o", "r", "t">>
            /\ (a + 6 > Len(text) \/ ~IsWordChar(text[a + 6]))

\* the text at position i of s is t
HoldsAt(s, i, t) == i + Len(t) - 1 <= Len(s) /\ \A k \in 1..Len(t) : s[i + k - 1] = t[k]

\* the path has one of the endings .json, .yaml, .yml, .md
StructuredEnding(path) ==
    \E ending \in { <<".", "j", "s", "o", "n">>, <<".", "y", "a", "m", "l">>,
                    <<".", "y", "m", "l">>, <<".", "m", "d">> } :
        Len(path) >= Len(ending) /\ HoldsAt(path, Len(path) - Len(ending) + 1, ending)

\* C22 as stated: the new content of an existing file is the proposed
\* content when that content is longer than 80% of the existing content, or
\* holds a block-comment opener or an import statement, or the path ends in
\* .json, .yaml, .yml or .md, and mergeCodeChanges(existing, proposed) in
\* every other case.
C22_AsStated ==
    mrgPc = "chosen" =>
        mrgNext = IF \/ 5 * Len(mrgNew) > 4 * Len(mrgExisting)
                     \/ \E i \in 1..Len(mrgNew) : HoldsAt(mrgNew, i, <<"/", "*">>)
                     \/ HasImportStatement(mrgNew)
                     \/ StructuredEnding(mrgPath)
                  THEN mrgNew ELSE mrgMerged

\* C22 amended: as stated, with "holds the text import followed by a space,
\* anywhere" in place of "holds an import statement".
C22_ReplaceOnMarkerText ==
    mrgPc = "chosen" =>
        mrgNext = IF \/ 5 * Len(mrgNew) > 4 * Len(mrgExisting)
                     \/ \E i \in 1..Len(mrgNew) : HoldsAt(mrgNew, i, <<"/", "*">>)
                     \/ \E i \in 1..Len(mrgNew) :
                           HoldsAt(mrgNew, i, <<"i", "m", "p", "o", "r", "t", " ">>)
                     \/ StructuredEnding(mrgPath)
                  THEN mrgNew ELSE mrgMerged

\* a proposed content of a declaration of x and a line that mentions
\* "import " replaced a longer .ts file outright, where the merge would have
\* given another text
C22_Witness ==
    /\ mrgPc = "chosen"
    /\ mrgPath = <<"a", ".", "t", "s">>
    /\ mrgNew = Join(<< <<"c", "o", "n", "s", "t", " ", "x">>,
                        <<"a", " ", "i", "m", "p", "o", "r", "t", " ", "b">> >>, "\n")
    /\ 5 * Len(mrgNew) <= 4 * Len(mrgExisting)
    /\ mrgNext = mrgNew /\ mrgNext # mrgMerged


\* the lines of the existing file that declare the first declaration name
\* of the new content
DeclaringLines(existing, newCode) ==
    LET lines == Split(existing, "\n") IN
        {i \in 1..Len(lines) : DeclaresName(lines[i], FirstDeclarationName(newCode))}

\* C23: when the first declaration name of the new content is declared on
\* a line of the existing file, s being the first such line and e the first
\* line after s that begins a declaration (the end of the file when there is
\* none), the result of mergeCodeChanges is the existing lines before s,
\* then the lines of the new content, then the existing lines from e on.
C23_SpliceKeepsOtherLines ==
    (mrgPc # "input" /\ mrgPc # "off" /\ FirstDeclarationName(mrgNew) # <<>>
       /\ DeclaringLines(mrgExisting, mrgNew) # {}) =>
        LET lines == Split(mrgExisting, "\n")
            merged == Split(mrgMerged, "\n")
            added == Len(Split(mrgNew, "\n"))
        IN  \E s \in DeclaringLines(mrgExisting, mrgNew), e \in 2..(Len(lines) + 1) :
                /\ \A i \in DeclaringLines(mrgExisting, mrgNew) : s <= i
                /\ e > s
                /\ e <= Len(lines) => BeginsDeclaration(lines[e])
                /\ \A i \in (s + 1)..(e - 1) : ~BeginsDeclaration(lines[i])
                /\ Len(merged) = (s - 1) + added + (Len(lines) - e + 1)
                /\ \A i \in 1..(s - 1) : merged[i] = lines[i]
                /\ \A i \in 1..added : merged[s - 1 + i] = Split(mrgNew, "\n")[i]
                /\ \A i \in e..Len(lines) : merged[s - 1 + added + i - e + 1] = lines[i]

\* a two-line declaration of x took the place of the second line of a file
\* whose first and third lines were kept
C23_Witness ==
    /\ mrgPc = "merged"
    /\ Split(mrgExisting, "\n") = << <<"x">>, <<"c", "o", "n", "s", "t", " ", "x">>,
                                     <<"l", "e", "t", " ", "b">> >>
    /\ Split(mrgNew, "\n") = << <<"c", "o", "n", "s", "t", " ", "x">>, <<"x">> >>
    /\ Split(mrgMerged, "\n") = << <<"x">>, <<"c", "o", "n", "s", "t", " ", "x">>, <<"x">>,
                                   <<"l", "e", "t", " ", "b">> >>

\* C24: mergeCodeChanges returns the new content alone when no declaration
\* name can be extracted from it; when the extracted name is declared on no
\* line of the existing file it returns the existing content followed by
\* the new content, the existing content being an unmodified prefix.
C24_ReplaceOrAppend ==
    (mrgPc # "input" /\ mrgPc # "off") =>
        /\ FirstDeclarationName(mrgNew) = <<>> => mrgMerged = mrgNew
        /\ (FirstDeclarationName(mrgNew) # <<>> /\ DeclaringLines(mrgExisting, mrgNew) = {}) =>
              /\ Len(mrgMerged) > Len(mrgExisting) + Len(mrgNew)
              /\ \A i \in 1..Len(mrgExisting) : mrgMerged[i] = mrgExisting[i]
              /\ \A i \in 1..Len(mrgNew) :
                    mrgMerged[Len(mrgMerged) - Len(mrgNew) + i] = mrgNew[i]
              /\ \A i \in (Len(mrgExisting) + 1)..(Len(mrgMerged) - Len(mrgNew)) :
                    mrgMerged[i] = "\n"

\* a declaration of x was appended to a file in which the name x follows its
\* keyword on the next line, so that no single line declares it
C24_Witness ==
    /\ mrgPc = "merged"
    /\ mrgNew = <<"c", "o", "n", "s", "t", " ", "x">>
    /\ mrgExisting = <<"l", "e", "t", "\n", "x">>
    /\ mrgMerged = mrgExisting \o <<"\n", "\n">> \o mrgNew


(***************************************************************************)
(* Creation of files by applyCodeChanges (Spec)                            *)
(***************************************************************************)
\* C25 as stated: after a committed edit, every change of the change set
\* whose location did not exist before the apply has a file that exists, and
\* the text of that file (the unsaved text of its document when there is
\* one) is exactly the content of that change.
\* Violated: two changes that name one new path each add createFile and an
\* insert at position (0, 0) to the same edit, and the file holds both texts.
C25_AsStated ==
    (pc \in {"review", "complete", "done"} /\ runLog.commit = "committed") =>
        \A k \in 1..Len(changeSet) :
            LET uri == SafeResolveWorkspaceFile(workspaceRoot, changeSet[k].path) IN
                (uri # Null /\ ~preStore.disk[uri].exists) =>
                    /\ disk[uri].exists
                    /\ DocText(disk, docs, uri) = changeSet[k].content


(***************************************************************************)
(* SpecExtract: parseCodeChanges on one response                           *)
(***************************************************************************)
MaxResponseLines == 5

\* lines of a response: a heading that names the path a, a heading that
\* names b with blanks around it and a remark after it, a bare fence, a
\* fence with a language, a line of code and a blank line
HeadingA == <<"#", "#", "#", "#", " ", Backtick, "a", Backtick>>

HeadingB == <<"#", "#", "#", "#", Backtick, " ", "b", " ", Backtick, " ", "(", "n", ")">>

ResponseLineChoices ==
    { HeadingA, HeadingB, Fence, Fence \o <<"t", "s">>, <<"x">>, <<>> }

ResponseTexts ==
    {Join(ls, "\n") : ls \in (SeqsUpTo(ResponseLineChoices, MaxResponseLines) \ {<<>>})}

InitExtract ==
    /\ xtrPc = "input"
    /\ xtrResponse \in ResponseTexts
    /\ xtrChanges = <<>>
    /\ BaseIdle /\ MergeIdle /\ ContextIdle /\ RaceIdle /\ CreateIdle

\* const changes = await this.parseCodeChanges(fullResponse)
ParseCodeChangesCall ==
    /\ xtrPc = "input"
    /\ xtrChanges' = ParseCodeChanges(xtrResponse)
    /\ xtrPc' = "parsed"
    /\ UNCHANGED <<xtrResponse, baseVars, mrgVars, ctxVars, raceVars, crtVars>>

NextExtract == ParseCodeChangesCall

SpecExtract == InitExtract /\ [][NextExtract]_vars


(***************************************************************************)
(* Properties of the change extraction (SpecExtract)                       *)
(***************************************************************************)
\* the positions of the back-ticks of a line
TickPositions(line) == {k \in 1..Len(line) : line[k] = Backtick}

\* a heading line that names a back-ticked path: ####, blanks, a back-tick,
\* a path that is not blank, a back-tick
IsPathHeading(line) ==
    /\ StartsWith(line, <<"#", "#", "#", "#">>)
    /\ Cardinality(TickPositions(line)) >= 2
    /\ \A k \in 5..(Min(TickPositions(line)) - 1) : line[k] = " "
    /\ \E k \in (Min(TickPositions(line)) + 1)..(Min(TickPositions(line) \ {Min(TickPositions(line))}) - 1) :
          ~IsSpace(line[k])

\* the path between the first two back-ticks of a heading line, trimmed
HeadingPath(line) ==
    LET first == Min(TickPositions(line))
        second == Min(TickPositions(line) \ {first})
    IN  Trim(SubSeq(line, first + 1, second - 1))

\* the fence lines after line i
FencesAfter(lines, i) == {k \in (i + 1)..Len(lines) : StartsWith(lines[k], Fence)}

\* the changes of the statement: a heading line, the opening fence on the
\* next line, and the lines up to the next fence line as the content
RECURSIVE StatedChanges(_, _)
StatedChanges(lines, i) ==
    IF i >= Len(lines) THEN <<>>
    ELSE IF /\ IsPathHeading(lines[i])
            /\ StartsWith(lines[i + 1], Fence)
            /\ FencesAfter(lines, i + 1) # {}
         THEN LET close == Min(FencesAfter(lines, i + 1)) IN
              << [path |-> HeadingPath(lines[i]),
                  content |-> Join(SubSeq(lines, i + 2, close - 1), "\n")] >>
              \o StatedChanges(lines, close + 1)
         ELSE StatedChanges(lines, i + 1)

\* C26 as stated: parseCodeChanges returns one change for every heading
\* line that names a back-ticked path and has a fenced code block beginning
\* on the next line, in the order of the text, with the trimmed path and the
\* inner text of the fence as content, and no other change.
\* Violated: the pattern wants a line break after the opening fence and one
\* more before the closing fence, so a fence with no line in it is not seen
\* as closed.
C26_AsStated ==
    xtrPc = "parsed" => xtrChanges = StatedChanges(Split(xtrResponse, "\n"), 1)


(***************************************************************************)
(* SpecContext: getSmartContextFromTask on one task title                  *)
(***************************************************************************)
\* the words of a task title, in their order: back-ticked paths, plain
\* paths, a path named twice, a path that leaves the workspace and a word
\* that is no path
TitleWords ==
    << <<Backtick, "1", ".", "t", "s", Backtick>>,
       <<"s", "/", "2", ".", "m", "d">>,
       <<Backtick, "s", "/", "2", ".", "m", "d", Backtick>>,
       <<"x">>,
       <<Backtick, ".", ".", "/", "4", ".", "t", "s", Backtick>>,
       <<"s", "/", "3", ".", "J", "S">>,
       <<Backtick, "5", ".", "t", "s", Backtick>>,
       <<Backtick, "6", ".", "t", "s", Backtick>>,
       <<Backtick, "7", ".", "t", "s", Backtick>>,
       <<Backtick, "8", ".", "t", "s", Backtick>> >>

\* the titles: runs of consecutive words that begin at the first, the
\* second or the fifth word
Titles ==
    { Join(SubSeq(TitleWords, first, last), " ") :
        first \in {1, 2, 5}, last \in 1..Len(TitleWords) }

\* the paths a title can name
ContextPaths ==
    << <<"1", ".", "t", "s">>, <<"s", "/", "2", ".", "m", "d">>,
       <<"s", "/", "3", ".", "J", "S">>, <<"5", ".", "t", "s">>, <<"6", ".", "t", "s">>,
       <<"7", ".", "t", "s">>, <<"8", ".", "t", "s">> >>

\* what a location can hold: nothing, a directory, a file that cannot be
\* read, an empty file, a file of one character, files of which two fill the
\* budget with or without their headers, and a file of the whole budget
ContextFileChoices ==
    { NoContextFile,
      [kind |-> "dir", readable |-> FALSE, size |-> 0],
      [kind |-> "file", readable |-> FALSE, size |-> 1] }
    \cup { [kind |-> "file", readable |-> TRUE, size |-> n] :
             n \in { 0, 1,
                     MaxSmartContextChars \div 2 - Len(Header(<<"1", ".", "t", "s">>)) - Len(Footer),
                     MaxSmartContextChars \div 2,
                     MaxSmartContextChars } }

\* the workspaces: the paths in odd places hold one choice, the paths in
\* even places another
ContextWorkspaces ==
    { [uri \in {SafeResolveWorkspaceFile(workspaceRoot, ContextPaths[k]) : k \in 1..Len(ContextPaths)} |->
          IF \E k \in 1..Len(ContextPaths) :
                 k % 2 = 1 /\ uri = SafeResolveWorkspaceFile(workspaceRoot, ContextPaths[k])
          THEN odd ELSE even] : odd, even \in ContextFileChoices }

InitContext ==
    /\ ctxPc = "input"
    /\ ctxTitle \in Titles
    /\ ctxFolders \in BOOLEAN
    /\ ctxFiles \in ContextWorkspaces
    /\ ctxPaths = <<>> /\ ctxIndex = 0 /\ ctxChunks = <<>> /\ ctxUsed = 0 /\ ctxResult = <<>>
    /\ BaseIdle /\ MergeIdle /\ ExtractIdle /\ RaceIdle /\ CreateIdle

\* getSmartContextFromTask up to the loop: without a workspace folder or
\* without a path in the title the empty string is returned
ExtractPaths ==
    /\ ctxPc = "input"
    /\ LET paths == IF ctxFolders THEN ExtractFilePathsFromText(ctxTitle) ELSE <<>> IN
          /\ ctxPaths' = paths
          /\ IF paths = <<>> THEN ctxPc' = "done" /\ ctxIndex' = 0
             ELSE ctxPc' = "loop" /\ ctxIndex' = 1
    /\ UNCHANGED <<ctxTitle, ctxFolders, ctxFiles, ctxChunks, ctxUsed, ctxResult, baseVars,
                   mrgVars, xtrVars, raceVars, crtVars>>

\* one pass of for (const path of paths)
VisitPath ==
    /\ ctxPc = "loop"
    /\ LET outcome == VisitOutcome(ctxPaths[ctxIndex], ctxFiles, ctxUsed) IN
          /\ IF outcome.step = "push"
             THEN /\ ctxChunks' = Append(ctxChunks, outcome.entry)
                  /\ ctxUsed' = ctxUsed + EntryLength(outcome.entry)
             ELSE UNCHANGED <<ctxChunks, ctxUsed>>
          /\ IF outcome.step = "stop" \/ ctxIndex = Len(ctxPaths)
             THEN ctxPc' = "return" /\ UNCHANGED ctxIndex
             ELSE ctxIndex' = ctxIndex + 1 /\ UNCHANGED ctxPc
    /\ UNCHANGED <<ctxTitle, ctxFolders, ctxFiles, ctxPaths, ctxResult, baseVars, mrgVars,
                   xtrVars, raceVars, crtVars>>

\* the return after the loop
ReturnContext ==
    /\ ctxPc = "return"
    /\ ctxResult' = SmartContext(ctxChunks)
    /\ ctxPc' = "done"
    /\ UNCHANGED <<ctxTitle, ctxFolders, ctxFiles, ctxPaths, ctxIndex, ctxChunks, ctxUsed,
                   baseVars, mrgVars, xtrVars, raceVars, crtVars>>

NextContext == ExtractPaths \/ VisitPath \/ ReturnContext

SpecContext == InitContext /\ [][NextContext]_vars


(***************************************************************************)
(* Properties of the smart context (SpecContext)                           *)
(***************************************************************************)
\* the sum of the lengths of the first n entries
RECURSIVE LengthOfFirst(_, _)
LengthOfFirst(chunks, n) ==
    IF n = 0 THEN 0
    ELSE LengthOfFirst(chunks, n - 1)
         + Len(chunks[n].header) + Len(chunks[n].included) + Len(chunks[n].footer)

\* the length of the file an entry was read from
SizeOfSource(chunk) ==
    ContextFile(ctxFiles, SafeResolveWorkspaceFile(workspaceRoot, chunk.path)).size

\* C27: getSmartContextFromTask considers at most 6 distinct path tokens;
\* the running total of the lengths of the emitted entries (header, excerpt
\* and footer) never exceeds 20,000; only the last emitted entry can be
\* truncated, and no entry is emitted once the budget is used up.
C27_ContextWithinBudget ==
    /\ Len(ctxPaths) <= 6
    /\ \A i, j \in 1..Len(ctxPaths) : i # j => ctxPaths[i] # ctxPaths[j]
    /\ ctxIndex <= Len(ctxPaths)
    /\ ctxUsed = LengthOfFirst(ctxChunks, Len(ctxChunks))
    /\ ctxUsed <= 20000
    /\ \A k \in 1..Len(ctxChunks) :
          /\ ctxChunks[k].included # <<>>
          /\ LengthOfFirst(ctxChunks, k - 1) < 20000
          /\ k < Len(ctxChunks) => Len(ctxChunks[k].included) = SizeOfSource(ctxChunks[k])

\* a title that names eight paths had six of them considered; the second
\* entry was cut to what was left of the budget and no entry followed it
C27_Witness ==
    /\ ctxPc = "done"
    /\ Len(Distinct(BacktickedPaths(ctxTitle, 1) \o PlainPaths(ctxTitle, 1), {})) = 8
    /\ Len(ctxPaths) = 6
    /\ ctxIndex < 6
    /\ Len(ctxChunks) = 2
    /\ Len(ctxChunks[2].included) < SizeOfSource(ctxChunks[2])
    /\ ctxUsed = 20000


(***************************************************************************)
(* Document order of the flattened tree (SpecTasks)                        *)
(***************************************************************************)
\* C28: the pre-order of the tree built by parseTasksFromContent is the
\* order of the checkbox lines in the text, the ids being task-0, task-1,
\* ... in that order, so that the task selected by a task number n is the
\* n-th checkbox line of the file and has the id task-(n-1).
C28_PreOrderIsLineOrder ==
    (prsPc # "input" /\ prsPc # "off") =>
        LET at == TaskLineNumbers(prsContent)
            lines == Split(prsContent, "\n")
        IN  /\ Len(prsTasks) = Len(at)
            /\ \A k \in 1..Len(prsTasks) :
                  /\ prsTasks[k].lineNumber = at[k]
                  /\ prsTasks[k].id = k - 1
                  /\ Cardinality({j \in 1..Len(prsTasks) : PreOrderBefore(prsTasks, j, k)}) = k - 1
            /\ \A j, k \in 1..Len(prsTasks) :
                  PreOrderBefore(prsTasks, j, k) <=> prsTasks[j].lineNumber < prsTasks[k].lineNumber
            /\ (prsPc = "selected" /\ tasksMd.exists /\ tasksMd.readable
                  /\ prsNumber >= 1 /\ prsNumber <= Len(at)) =>
                  /\ Len(prsSelected) = 1
                  /\ prsSelected[1].lineNumber = at[prsNumber]
                  /\ prsSelected[1].id = prsNumber - 1
                  /\ prsSelected[1].title = TitleOf(lines[at[prsNumber]])

\* task number 3 selected the third checkbox line, a task two levels below
\* the line before it, of a text whose first task is indented
C28_Witness ==
    /\ prsPc = "selected" /\ prsNumber = 3
    /\ tasksMd.exists /\ tasksMd.readable
    /\ Len(prsTasks) = 3
    /\ LevelOfNode(prsContent, prsTasks, 1) = 1
    /\ LevelOfNode(prsContent, prsTasks, 2) = 0
    /\ LevelOfNode(prsContent, prsTasks, 3) = 2
    /\ prsSelected = <<prsTasks[3]>>
    /\ prsSelected[1].id = 2


(***************************************************************************)
(* SpecRace: two toggleTask calls for different tasks of one feature, one  *)
(* from the dashboard and one from the auto-complete of /implement         *)
(***************************************************************************)
Callers == {"dashboard", "implement"}

InitRace ==
    /\ raceFile \in TaskTexts
    /\ raceBefore = raceFile
    /\ racePc = [c \in Callers |-> "start"]
    /\ raceTask \in {t \in [Callers -> 0..(MaxLines - 1)] : t["dashboard"] # t["implement"]}
    /\ racePending = [c \in Callers |-> <<>>]
    /\ BaseIdle /\ MergeIdle /\ ExtractIdle /\ ContextIdle /\ CreateIdle

\* toggleTask up to await this.writeArtifact(...): tasks.md is read and the
\* new text computed; the call returns when the text is empty or the task
\* is not found
ToggleRead(c) ==
    /\ racePc[c] = "start"
    /\ LET toggled == ToggleContent(raceFile, raceTask[c]) IN
          IF toggled.write
          THEN /\ racePc' = [racePc EXCEPT ![c] = "write"]
               /\ racePending' = [racePending EXCEPT ![c] = toggled.content]
          ELSE /\ racePc' = [racePc EXCEPT ![c] = "done"]
               /\ UNCHANGED racePending
    /\ UNCHANGED <<raceTask, raceFile, raceBefore, baseVars, mrgVars, xtrVars, ctxVars, crtVars>>

\* writeArtifact(featureId, "tasks", lines.join("\n"))
ToggleWrite(c) ==
    /\ racePc[c] = "write"
    /\ raceFile' = racePending[c]
    /\ racePc' = [racePc EXCEPT ![c] = "done"]
    /\ UNCHANGED <<raceTask, racePending, raceBefore, baseVars, mrgVars, xtrVars, ctxVars, crtVars>>

NextRace == \E c \in Callers : ToggleRead(c) \/ ToggleWrite(c)

SpecRace == InitRace /\ [][NextRace]_vars

\* both tasks are tasks of the text
BothTasksExist ==
    \A c \in Callers : FindTask(ParseTasksFromContent(raceBefore), raceTask[c]) # <<>>

\* C29 as stated: when two toggleTask calls for different tasks of one
\* tasks.md have both returned, however their reads and writes interleaved,
\* the text has the markers of both tasks flipped and every other line as it
\* was.
\* Violated: each call writes back the whole text it read, so the call that
\* writes last puts back the other task's old marker.
C29_AsStated ==
    (BothTasksExist /\ \A c \in Callers : racePc[c] = "done") =>
        raceFile = ToggleContent(ToggleContent(raceBefore, raceTask["dashboard"]).content,
                                 raceTask["implement"]).content


(***************************************************************************)
(* Feature directories: SpeckyFileManager.createFeature, listFeatures and  *)
(* getNextFeatureNumber, called by the /specify handler and by the         *)
(* specky.createSpec command on one .specky directory                      *)
(***************************************************************************)
DigitChars == <<"0", "1", "2", "3", "4", "5", "6", "7", "8", "9">>

RECURSIVE NumberToString(_)
\* number.toString() of a non-negative integer
NumberToString(n) ==
    IF n < 10 THEN <<DigitChars[n + 1]>>
    ELSE NumberToString(n \div 10) \o <<DigitChars[(n % 10) + 1]>>

\* s.padStart(width, fill): a text already that long is left as it is
PadStart(s, width, fill) ==
    IF Len(s) >= width THEN s ELSE [k \in 1..(width - Len(s)) |-> fill] \o s

RECURSIVE ParseInt(_)
\* parseInt(s, 10) of a text of digits
ParseInt(s) ==
    IF s = <<>> THEN 0
    ELSE 10 * ParseInt(SubSeq(s, 1, Len(s) - 1))
         + ((CHOOSE k \in 1..Len(DigitChars) : DigitChars[k] = s[Len(s)]) - 1)

\* [a-z0-9]
IsSlugChar(c) == c \in LowerLetters \cup Digits

RECURSIVE ReplaceRuns(_, _)
\* .replace(/[^a-z0-9]+/g, "-") from position k: every maximal run of other
\* characters becomes one "-"
ReplaceRuns(s, k) ==
    IF k > Len(s) THEN <<>>
    ELSE IF IsSlugChar(s[k]) THEN <<s[k]>> \o ReplaceRuns(s, k + 1)
    ELSE IF k > 1 /\ ~IsSlugChar(s[k - 1]) THEN ReplaceRuns(s, k + 1)
    ELSE <<"-">> \o ReplaceRuns(s, k + 1)

\* .replace(/^-|-$/g, ""): one "-" off the start and one off the end
StripDashes(s) ==
    LET a == IF s # <<>> /\ s[1] = "-" THEN Tail(s) ELSE s IN
    IF a # <<>> /\ a[Len(a)] = "-" THEN SubSeq(a, 1, Len(a) - 1) ELSE a

Slugify(name) == StripDashes(ReplaceRuns(ToLowerCase(name), 1))

NewFeature == <<"n", "e", "w", "-", "f", "e", "a", "t", "u", "r", "e">>

\* let slug = this.slugify(name); if (!slug) slug = "new-feature"
SlugOf(name) == IF Slugify(name) = <<>> THEN NewFeature ELSE Slugify(name)

\* `${number.toString().padStart(3, "0")}-${slug}`
FeatureDirName(number, slug) ==
    PadStart(NumberToString(number), 3, "0") \o <<"-">> \o slug

\* name.match(/^(\d{3})-(.+)$/): three digits, a "-", and at least one
\* character none of which ends a line
ParseFeatureDir(name) ==
    IF /\ Len(name) >= 5
       /\ \A k \in 1..3 : name[k] \in Digits
       /\ name[4] = "-"
       /\ \A k \in 5..Len(name) : name[k] # "\n"
    THEN [matched |-> TRUE, number |-> ParseInt(SubSeq(name, 1, 3)),
          name |-> SubSeq(name, 5, Len(name))]
    ELSE [matched |-> FALSE, number |-> 0, name |-> <<>>]

\* listFeatures over the directories of .specky: the ones whose name parses.
\* The sort by number orders the list and decides nothing here, so the
\* features are kept as a set.
ListFeatures(dirs) ==
    {[id |-> d, number |-> ParseFeatureDir(d).number, name |-> ParseFeatureDir(d).name] :
        d \in {e \in dirs : ParseFeatureDir(e).matched}}

\* Math.max(...numbers), 0 standing for "no number"
Largest(numbers) ==
    IF numbers = {} THEN 0 ELSE CHOOSE n \in numbers : \A m \in numbers : m <= n

ListedNumbers(dirs) == {f.number : f \in ListFeatures(dirs)}

GetNextFeatureNumber(dirs) ==
    IF ListFeatures(dirs) = {} THEN 1 ELSE Largest(ListedNumbers(dirs)) + 1

(***************************************************************************)
(* SpecCreate: createFeature calls of two callers on one .specky directory *)
(***************************************************************************)
\* calls each caller makes
MaxCreateCalls == 2

\* the /specify handler and the specky.createSpec command
Creators == {"specify", "createSpec"}

FeatureNames ==
    { <<"A", " ", "b">>, <<"a", "-", "b">>, <<"c">>, <<"!", "?">> }

\* what .specky holds before the calls: nothing, one feature, a feature and
\* a directory that is no feature, and the feature numbered 999
InitialDirs ==
    { {},
      {<<"0", "0", "1", "-", "c">>},
      {<<"0", "0", "2", "-", "c">>, <<"d", "o", "c", "s">>},
      {<<"9", "9", "9", "-", "c">>} }

InitCreate ==
    /\ speckyDirs \in InitialDirs
    /\ crtPc = [c \in Creators |-> "idle"]
    /\ crtName = [c \in Creators |-> <<>>]
    /\ crtNumber = [c \in Creators |-> 0]
    /\ crtCalls = [c \in Creators |-> 0]
    /\ crtCreated = {}
    /\ BaseIdle /\ MergeIdle /\ ExtractIdle /\ ContextIdle /\ RaceIdle

\* createFeature(name) up to await createDirectory(featurePath): .specky is
\* listed and the next number taken from the listing
CreateFeatureNumber(c) ==
    /\ crtPc[c] = "idle"
    /\ crtCalls[c] < MaxCreateCalls
    /\ \E name \in FeatureNames :
          crtName' = [crtName EXCEPT ![c] = name]
    /\ crtNumber' = [crtNumber EXCEPT ![c] = GetNextFeatureNumber(speckyDirs)]
    /\ crtCalls' = [crtCalls EXCEPT ![c] = @ + 1]
    /\ crtPc' = [crtPc EXCEPT ![c] = "numbered"]
    /\ UNCHANGED <<speckyDirs, crtCreated, baseVars, mrgVars, xtrVars, ctxVars, raceVars>>

\* the rest of createFeature: the directory is made (making one that exists
\* changes nothing) and the feature returned
CreateFeatureDirectory(c) ==
    /\ crtPc[c] = "numbered"
    /\ LET dirName == FeatureDirName(crtNumber[c], SlugOf(crtName[c])) IN
          /\ speckyDirs' = speckyDirs \cup {dirName}
          /\ crtCreated' = crtCreated \cup
                {[id |-> dirName, number |-> crtNumber[c],
                  present |-> ListedNumbers(speckyDirs)]}
    /\ crtPc' = [crtPc EXCEPT ![c] = "idle"]
    /\ UNCHANGED <<crtName, crtNumber, crtCalls, baseVars, mrgVars, xtrVars, ctxVars, raceVars>>

NextCreate == \E c \in Creators : CreateFeatureNumber(c) \/ CreateFeatureDirectory(c)

SpecCreate == InitCreate /\ [][NextCreate]_vars

\* C30 as stated: after any sequence of createFeature calls, interleaved or
\* not, the features listFeatures lists have pairwise distinct numbers, and
\* every feature a call created is listed with a number one greater than the
\* largest number listed when its directory was made.
\* Violated: a call takes its number from a listing made before it awaits
\* createDirectory, so two calls that both list before either makes its
\* directory take the same number.
C30_AsStated ==
    /\ \A f, g \in ListFeatures(speckyDirs) : f.number = g.number => f = g
    /\ \A e \in crtCreated :
          \E f \in ListFeatures(speckyDirs) :
              f.id = e.id /\ f.number = Largest(e.present) + 1

=============================================================================
